---- MODULE Spec2Model ----
(***************************************************************************)
(* Model of src/src/server/technicalLevels.ts: computeTechnicalLevels, the *)
(* pivot / cluster / touch / score pipeline that turns a candle sequence   *)
(* and an options object into support and resistance levels.               *)
(*                                                                         *)
(* Numbers.  The code computes in IEEE doubles; the model computes in      *)
(* exact rationals, a record [n, d] in lowest terms with d > 0, so that    *)
(* the weighted average, the proximity threshold, the clamp of the volume  *)
(* multiplier and the rounding to 2 decimals are all computed as the code  *)
(* computes them, without the representation error of a double.            *)
(*                                                                         *)
(* Candles.  computeTechnicalLevels reads only high, low, volume and time  *)
(* of a candle (open and close are never read), so a candle is the record  *)
(* [time, high, low, volume].  An optional field (volume?: number, every   *)
(* field of the options) is a sequence: <<>> when absent, <<v>> when set.  *)
(*                                                                         *)
(* metadata.lastUpdated is the wall clock and is not part of the model.    *)
(*                                                                         *)
(* The handler of POST /api/analysis in src/server.ts is modelled beside   *)
(* it, in the variable `analysis` and the specification SpecAnalysis.      *)
(***************************************************************************)
EXTENDS Integers, Sequences, FiniteSets

VARIABLES candles, options, pc, avgVol, i, pivots, k, clusters, result, analysis,
          levelsRoute

vars == <<candles, options, pc, avgVol, i, pivots, k, clusters, result, analysis,
          levelsRoute>>

(***************************************************************************)
(* Bounds of the input space.                                              *)
(***************************************************************************)
\* every candle sequence of at most MaxLen candles is an input
MaxLen == 3
\* alternating sequences (separator, swing, separator, ...) with up to
\* MaxSwings swing candles are inputs too: they reach MaxSwings pivots of one
\* kind, which the sequences of at most MaxLen candles do not
MaxSwings == 3
\* alternating sequences in which one swing shape repeats up to MaxRepeats
\* times are inputs too: they reach a cluster of MaxRepeats pivots and a raw
\* score above 100
MaxRepeats == 5

(***************************************************************************)
(* Exact rational arithmetic (the code's number arithmetic).               *)
(***************************************************************************)
RECURSIVE GCD(_, _)
GCD(a, b) == IF b = 0 THEN a ELSE GCD(b, a % b)

Abs(x) == IF x < 0 THEN -x ELSE x

\* the rational n/d in lowest terms, d > 0
Rat(n, d) ==
    LET s == IF d < 0 THEN -1 ELSE 1
        g == GCD(Abs(n), Abs(d))
    IN  [n |-> (s * n) \div g, d |-> (s * d) \div g]

RInt(x) == [n |-> x, d |-> 1]

RAdd(a, b) ==
    LET g == GCD(a.d, b.d)
    IN  Rat(a.n * (b.d \div g) + b.n * (a.d \div g), (a.d \div g) * b.d)

RSub(a, b) == RAdd(a, [n |-> -b.n, d |-> b.d])

RMul(a, b) ==
    LET g1 == GCD(Abs(a.n), b.d)
        g2 == GCD(Abs(b.n), a.d)
    IN  Rat((a.n \div g1) * (b.n \div g2), (a.d \div g2) * (b.d \div g1))

\* a / b, b # 0
RDiv(a, b) == RMul(a, Rat(b.d, b.n))

\* a <= b and a < b, on the common denominator lcm(a.d, b.d)
RLe(a, b) ==
    LET g == GCD(a.d, b.d)
    IN  a.n * (b.d \div g) <= b.n * (a.d \div g)

RLt(a, b) ==
    LET g == GCD(a.d, b.d)
    IN  a.n * (b.d \div g) < b.n * (a.d \div g)

RAbs(a) == [n |-> Abs(a.n), d |-> a.d]

RMax(a, b) == IF RLe(a, b) THEN b ELSE a

RMin(a, b) == IF RLe(a, b) THEN a ELSE b

\* Math.round: the nearest integer, a half rounded up
MathRound(a) == (2 * a.n + a.d) \div (2 * a.d)

\* Number(x.toFixed(2)): the nearest multiple of 1/100, a half rounded up
ToFixed2(a) == Rat(MathRound(RMul(a, RInt(100))), 100)

(***************************************************************************)
(* Settings (lines 131-137): options.x ?? default.                         *)
(***************************************************************************)
\* a ?? b on an optional field
OrElse(opt, dflt) == IF opt = <<>> THEN dflt ELSE opt[1]

\* mutant of ResolveSettings: useVolumeConfirmation || true, a set false is lost
ResolveSettings_FalsyFlag(opts) ==
    [ swingLookback         |-> OrElse(opts.swingLookback, 3),
      proximityPercent      |-> OrElse(opts.proximityPercent, Rat(6, 1000)),
      maxLevelsPerSide      |-> OrElse(opts.maxLevelsPerSide, 4),
      useVolumeConfirmation |-> IF opts.useVolumeConfirmation \in {<< >>, << FALSE >>}
                                THEN TRUE ELSE opts.useVolumeConfirmation[1] ]

ResolveSettings(opts) ==
    [ swingLookback         |-> OrElse(opts.swingLookback, 3),
      proximityPercent      |-> OrElse(opts.proximityPercent, Rat(6, 1000)),
      maxLevelsPerSide      |-> OrElse(opts.maxLevelsPerSide, 4),
      useVolumeConfirmation |-> OrElse(opts.useVolumeConfirmation, TRUE) ]

Method == "deterministic:pivot-cluster-touch-score"

(***************************************************************************)
(* averageVolume (lines 55-60).                                            *)
(***************************************************************************)
RECURSIVE SumVolume(_)
SumVolume(cs) ==
    IF cs = <<>> THEN 0
    ELSE (IF Head(cs).volume = <<>> THEN 0 ELSE Head(cs).volume[1]) + SumVolume(Tail(cs))

\* mutant of averageVolume: the sum is divided by the number of all candles
averageVolume_OverAllCandles(cs) ==
    LET withVolume == SelectSeq(cs, LAMBDA c : c.volume # <<>>)
    IN  IF Len(withVolume) = 0 THEN RInt(0)
        ELSE Rat(SumVolume(withVolume), Len(cs))

averageVolume(cs) ==
    LET withVolume == SelectSeq(cs, LAMBDA c : c.volume # <<>>)
    IN  IF Len(withVolume) = 0 THEN RInt(0)
        ELSE Rat(SumVolume(withVolume), Len(withVolume))

(***************************************************************************)
(* isPivotHigh, isPivotLow (lines 62-78).  index is 0-based as in the      *)
(* code; candle index j of the code is cs[j + 1].                          *)
(***************************************************************************)
\* mutant of isPivotHigh: an equal high of a neighbour does not disqualify
isPivotHigh_TiesAllowed(cs, index, lookback) ==
    \A j \in (index - lookback)..(index + lookback) :
        \/ j = index \/ j < 0 \/ j >= Len(cs)
        \/ ~ RLt(cs[index + 1].high, cs[j + 1].high)

isPivotHigh(cs, index, lookback) ==
    \A j \in (index - lookback)..(index + lookback) :
        \/ j = index \/ j < 0 \/ j >= Len(cs)
        \/ ~ RLe(cs[index + 1].high, cs[j + 1].high)

\* mutant of isPivotLow: only the candles before the index are compared
isPivotLow_LookBehindOnly(cs, index, lookback) ==
    \A j \in (index - lookback)..index :
        \/ j = index \/ j < 0 \/ j >= Len(cs)
        \/ ~ RLe(cs[j + 1].low, cs[index + 1].low)

isPivotLow(cs, index, lookback) ==
    \A j \in (index - lookback)..(index + lookback) :
        \/ j = index \/ j < 0 \/ j >= Len(cs)
        \/ ~ RLe(cs[j + 1].low, cs[index + 1].low)

(***************************************************************************)
(* The body of the detection loop (lines 158-165): the pivots candle       *)
(* `index` adds, the resistance pivot before the support pivot.            *)
(***************************************************************************)
NormalizedVolume(candle, avg) ==
    IF RLt(RInt(0), avg) /\ candle.volume # <<>> /\ candle.volume # <<0>>
    THEN RDiv(RInt(candle.volume[1]), avg)
    ELSE RInt(1)

\* mutant of PivotsAt: else-if, a candle that is a pivot high is not tested as
\* a pivot low
PivotsAt_OnePerCandle(cs, index, lookback, avg) ==
    LET candle == cs[index + 1]
        nv     == NormalizedVolume(candle, avg)
    IN  IF isPivotHigh(cs, index, lookback)
        THEN << [price |-> candle.high, time |-> candle.time, volume |-> nv, kind |-> "resistance"] >>
        ELSE IF isPivotLow(cs, index, lookback)
        THEN << [price |-> candle.low, time |-> candle.time, volume |-> nv, kind |-> "support"] >>
        ELSE << >>

PivotsAt(cs, index, lookback, avg) ==
    LET candle == cs[index + 1]
        nv     == NormalizedVolume(candle, avg)
    IN  (IF isPivotHigh(cs, index, lookback)
         THEN << [price |-> candle.high, time |-> candle.time, volume |-> nv, kind |-> "resistance"] >>
         ELSE << >>)
        \o
        (IF isPivotLow(cs, index, lookback)
         THEN << [price |-> candle.low, time |-> candle.time, volume |-> nv, kind |-> "support"] >>
         ELSE << >>)

\* the whole loop of lines 157-166, from index `from` on
RECURSIVE DetectFrom(_, _, _, _)
DetectFrom(cs, from, lookback, avg) ==
    IF from >= Len(cs) - lookback THEN << >>
    ELSE PivotsAt(cs, from, lookback, avg) \o DetectFrom(cs, from + 1, lookback, avg)

(***************************************************************************)
(* clusterPivots (lines 80-117).                                           *)
(***************************************************************************)
\* mutant of VolumeMultiplier: useVolumeConfirmation is not consulted
VolumeMultiplier_IgnoresFlag(pivot, useVolumeConfirmation) ==
    RMax(Rat(1, 2),
         RMin(IF pivot.volume = RInt(0) THEN RInt(1) ELSE pivot.volume, RInt(3)))

\* lines 85-87: Math.max(0.5, Math.min((pivot.volume ?? 0) || 1, 3)), or 1
VolumeMultiplier(pivot, useVolumeConfirmation) ==
    IF useVolumeConfirmation
    THEN RMax(Rat(1, 2),
              RMin(IF pivot.volume = RInt(0) THEN RInt(1) ELSE pivot.volume, RInt(3)))
    ELSE RInt(1)

\* mutant of Qualifies: the kind of the cluster is not compared
Qualifies_AnyKind(cluster, pivot, proximityPercent) ==
    RLe(RAbs(RSub(cluster.avgPrice, pivot.price)), RMul(pivot.price, proximityPercent))

\* mutant of Qualifies: proximityPercent is taken as a percentage
Qualifies_AsPercentage(cluster, pivot, proximityPercent) ==
    /\ cluster.kind = pivot.kind
    /\ RLe(RAbs(RSub(cluster.avgPrice, pivot.price)),
           RMul(pivot.price, RDiv(proximityPercent, RInt(100))))

\* line 91-92: the cluster is a merge target of the pivot
Qualifies(cluster, pivot, proximityPercent) ==
    /\ cluster.kind = pivot.kind
    /\ RLe(RAbs(RSub(cluster.avgPrice, pivot.price)), RMul(pivot.price, proximityPercent))

\* mutant of FirstFit: best-fit, the qualifying cluster nearest in price
FirstFit_Nearest(cls, pivot, proximityPercent) ==
    LET hits    == {c \in 1..Len(cls) : Qualifies(cls[c], pivot, proximityPercent)}
        gap(c)  == RAbs(RSub(cls[c].avgPrice, pivot.price))
    IN  IF hits = {} THEN 0
        ELSE CHOOSE c \in hits : \A h \in hits : RLe(gap(c), gap(h))

\* mutant of FirstFit: only the most recently created cluster is tried
FirstFit_LastOnly(cls, pivot, proximityPercent) ==
    IF cls # << >> /\ Qualifies(cls[Len(cls)], pivot, proximityPercent)
    THEN Len(cls) ELSE 0

\* lines 90-102: the first cluster that qualifies (0: none)
FirstFit(cls, pivot, proximityPercent) ==
    LET hits == {c \in 1..Len(cls) : Qualifies(cls[c], pivot, proximityPercent)}
    IN  IF hits = {} THEN 0 ELSE CHOOSE c \in hits : \A h \in hits : c <= h

\* mutant of MergeInto: the new average is the midpoint of the old average
\* and the pivot's price, the weights are not applied
MergeInto_Midpoint(cluster, pivot, volumeMultiplier) ==
    LET weight == RMul(RInt(1), volumeMultiplier)
    IN  [ kind        |-> cluster.kind,
          avgPrice    |-> RDiv(RAdd(cluster.avgPrice, pivot.price), RInt(2)),
          totalWeight |-> RAdd(cluster.totalWeight, weight),
          touches     |-> cluster.touches + 1,
          pivotCount  |-> cluster.pivotCount + 1,
          volumeScore |-> RAdd(cluster.volumeScore, volumeMultiplier) ]

\* lines 93-98
MergeInto(cluster, pivot, volumeMultiplier) ==
    LET weight == RMul(RInt(1), volumeMultiplier)
    IN  [ kind        |-> cluster.kind,
          avgPrice    |-> RDiv(RAdd(RMul(cluster.avgPrice, cluster.totalWeight),
                                    RMul(pivot.price, weight)),
                               RAdd(cluster.totalWeight, weight)),
          totalWeight |-> RAdd(cluster.totalWeight, weight),
          touches     |-> cluster.touches + 1,
          pivotCount  |-> cluster.pivotCount + 1,
          volumeScore |-> RAdd(cluster.volumeScore, volumeMultiplier) ]

\* mutant of NewCluster: the cluster starts with weight 1, whatever the
\* multiplier of its pivot
NewCluster_UnitWeight(pivot, volumeMultiplier) ==
    [ kind        |-> pivot.kind,
      avgPrice    |-> pivot.price,
      totalWeight |-> RInt(1),
      touches     |-> 1,
      pivotCount  |-> 1,
      volumeScore |-> volumeMultiplier ]

\* lines 105-112
NewCluster(pivot, volumeMultiplier) ==
    [ kind        |-> pivot.kind,
      avgPrice    |-> pivot.price,
      totalWeight |-> volumeMultiplier,
      touches     |-> 1,
      pivotCount  |-> 1,
      volumeScore |-> volumeMultiplier ]

\* the body of the loop of lines 83-114 for one pivot
AddPivot(cls, pivot, proximityPercent, useVolumeConfirmation) ==
    LET vm  == VolumeMultiplier(pivot, useVolumeConfirmation)
        hit == FirstFit(cls, pivot, proximityPercent)
    IN  IF hit = 0 THEN Append(cls, NewCluster(pivot, vm))
        ELSE [cls EXCEPT ![hit] = MergeInto(cls[hit], pivot, vm)]

\* the whole loop, started from the clusters cls
RECURSIVE ClusterFrom(_, _, _, _)
ClusterFrom(cls, ps, proximityPercent, useVolumeConfirmation) ==
    IF ps = << >> THEN cls
    ELSE ClusterFrom(AddPivot(cls, Head(ps), proximityPercent, useVolumeConfirmation),
                     Tail(ps), proximityPercent, useVolumeConfirmation)

clusterPivots(ps, proximityPercent, useVolumeConfirmation) ==
    ClusterFrom(<< >>, ps, proximityPercent, useVolumeConfirmation)

(***************************************************************************)
(* countTouches (lines 119-129).                                           *)
(***************************************************************************)
\* mutant of countTouches: the signs of the tolerance are exchanged, a candle
\* counts when it covers the whole band
countTouches_SignsExchanged(cs, levelPrice, tolerancePercent) ==
    LET tolerance == RMul(levelPrice, tolerancePercent)
    IN  Cardinality({ j \in 1..Len(cs) :
                        /\ RLe(cs[j].low, RSub(levelPrice, tolerance))
                        /\ RLe(RAdd(levelPrice, tolerance), cs[j].high) })

countTouches(cs, levelPrice, tolerancePercent) ==
    LET tolerance == RMul(levelPrice, tolerancePercent)
    IN  Cardinality({ j \in 1..Len(cs) :
                        /\ RLe(cs[j].low, RAdd(levelPrice, tolerance))
                        /\ RLe(RSub(levelPrice, tolerance), cs[j].high) })

(***************************************************************************)
(* toLevelInfo (lines 169-187).                                            *)
(***************************************************************************)
\* line 176: (pivotCount*20 + touches*8 + volumeScore*6) / 2
RawScore(cluster, touches) ==
    RDiv(RAdd(RInt(cluster.pivotCount * 20 + touches * 8),
              RMul(cluster.volumeScore, RInt(6))),
         RInt(2))

\* mutant of Confidence: Math.floor instead of Math.round
Confidence_Floor(cluster, touches) ==
    LET raw     == RawScore(cluster, touches)
        floored == raw.n \div raw.d
    IN  IF floored > 100 THEN 100 ELSE floored

\* mutant of Confidence: the score is not capped at 100
Confidence_NoCap(cluster, touches) == MathRound(RawScore(cluster, touches))

\* lines 174-177: Math.min(100, Math.round(...))
Confidence(cluster, touches) ==
    LET rounded == MathRound(RawScore(cluster, touches))
    IN  IF rounded > 100 THEN 100 ELSE rounded

\* mutant of LevelOf: the clustering-time counter is emitted as touches and
\* scored
LevelOf_ClusterTouches(cs, cluster, proximityPercent) ==
    [ price      |-> ToFixed2(cluster.avgPrice),
      confidence |-> Confidence(cluster, cluster.touches),
      touches    |-> cluster.touches ]

\* mutant of LevelOf: the price is rounded first and the touches are counted
\* around the rounded price
LevelOf_RoundedFirst(cs, cluster, proximityPercent) ==
    LET touches == countTouches(cs, ToFixed2(cluster.avgPrice), proximityPercent)
    IN  [ price      |-> ToFixed2(cluster.avgPrice),
          confidence |-> Confidence(cluster, touches),
          touches    |-> touches ]

\* lines 172-183: the level of one cluster
LevelOf(cs, cluster, proximityPercent) ==
    LET touches == countTouches(cs, cluster.avgPrice, proximityPercent)
    IN  [ price      |-> ToFixed2(cluster.avgPrice),
          confidence |-> Confidence(cluster, touches),
          touches    |-> touches ]

\* Array.prototype.sort is stable: an element is placed before the first
\* element that the comparator puts strictly after it.
RECURSIVE InsertByConfidence(_, _)
InsertByConfidence(sorted, x) ==
    IF sorted = << >> THEN << x >>
    ELSE IF Head(sorted).confidence < x.confidence THEN << x >> \o sorted
    ELSE << Head(sorted) >> \o InsertByConfidence(Tail(sorted), x)

\* line 184: .sort((a, b) => b.confidence - a.confidence)
RECURSIVE SortByConfidenceDesc(_)
\* mutant of SortByConfidenceDesc: the candidates stay in cluster order
SortByConfidenceDesc_Unsorted(s) == s

SortByConfidenceDesc(s) ==
    IF s = << >> THEN << >>
    ELSE InsertByConfidence(SortByConfidenceDesc(SubSeq(s, 1, Len(s) - 1)), s[Len(s)])

RECURSIVE InsertByPrice(_, _)
InsertByPrice(sorted, x) ==
    IF sorted = << >> THEN << x >>
    ELSE IF RLt(x.price, Head(sorted).price) THEN << x >> \o sorted
    ELSE << Head(sorted) >> \o InsertByPrice(Tail(sorted), x)

\* line 186: .sort((a, b) => a.price - b.price)
RECURSIVE SortByPriceAsc(_)
SortByPriceAsc(s) ==
    IF s = << >> THEN << >>
    ELSE InsertByPrice(SortByPriceAsc(SubSeq(s, 1, Len(s) - 1)), s[Len(s)])

\* mutant of Slice: the cap on the number of levels is not applied
Slice_NoCap(s, n) == s

\* line 185: .slice(0, n)
Slice(s, n) == SubSeq(s, 1, IF n < Len(s) THEN n ELSE Len(s))

\* lines 170-183: the candidate levels of one kind, in cluster order
Candidates(cs, cls, kind, stg) ==
    LET own == SelectSeq(cls, LAMBDA c : c.kind = kind)
    IN  [j \in 1..Len(own) |-> LevelOf(cs, own[j], stg.proximityPercent)]

toLevelInfo(cs, cls, kind, stg) ==
    SortByPriceAsc(Slice(SortByConfidenceDesc(Candidates(cs, cls, kind, stg)),
                         stg.maxLevelsPerSide))

(***************************************************************************)
(* The result (lines 139-152 and 189-214).                                 *)
(***************************************************************************)
RECURSIVE SumConfidence(_)
SumConfidence(levels) ==
    IF levels = << >> THEN 0 ELSE Head(levels).confidence + SumConfidence(Tail(levels))

\* mutant of AggregateConfidence: Math.floor instead of Math.round
AggregateConfidence_Floor(levels) ==
    IF Len(levels) # 0 THEN SumConfidence(levels) \div Len(levels) ELSE 0

\* mutant of AggregateConfidence: the guard is length > 1, a single retained
\* level gives 0
AggregateConfidence_NeedsTwo(levels) ==
    IF Len(levels) > 1 THEN MathRound(Rat(SumConfidence(levels), Len(levels))) ELSE 0

\* lines 191-194
AggregateConfidence(levels) ==
    IF Len(levels) # 0 THEN MathRound(Rat(SumConfidence(levels), Len(levels))) ELSE 0

\* lines 196-198: Object.fromEntries: a later entry of the same key replaces
\* an earlier one; the key is level.price.toFixed(2)
TouchCounts(levels) ==
    LET key(j) == ToFixed2(levels[j].price)
        keys   == { key(j) : j \in 1..Len(levels) }
        last(p) == CHOOSE j \in 1..Len(levels) :
                      /\ key(j) = p
                      /\ \A h \in 1..Len(levels) : key(h) = p => h <= j
    IN  [ p \in keys |-> levels[last(p)].touches ]

Prices(levels) == [j \in 1..Len(levels) |-> levels[j].price]

\* lines 140-151
EmptyResult(stg) ==
    [ supportLevels    |-> << >>,
      resistanceLevels |-> << >>,
      metadata |-> [ method         |-> Method,
                     confidence     |-> 0,
                     touchCounts    |-> << >>,
                     detailedLevels |-> [support |-> << >>, resistance |-> << >>],
                     settings       |-> stg ] ]

\* lines 168 and 189-214
LevelsResult(cs, cls, stg) ==
    LET support    == toLevelInfo(cs, cls, "support", stg)
        resistance == toLevelInfo(cs, cls, "resistance", stg)
    IN  [ supportLevels    |-> Prices(support),
          resistanceLevels |-> Prices(resistance),
          metadata |-> [ method         |-> Method,
                         confidence     |-> AggregateConfidence(support \o resistance),
                         touchCounts    |-> TouchCounts(support \o resistance),
                         detailedLevels |-> [support |-> support, resistance |-> resistance],
                         settings       |-> stg ] ]

\* computeTechnicalLevels as a function of its arguments (lines 131-215)
computeTechnicalLevels(cs, opts) ==
    LET stg == ResolveSettings(opts)
    IN  IF Len(cs) < stg.swingLookback * 2 + 1 THEN EmptyResult(stg)
        ELSE LET ps  == DetectFrom(cs, stg.swingLookback, stg.swingLookback, averageVolume(cs))
                 cls == clusterPivots(ps, stg.proximityPercent, stg.useVolumeConfirmation)
             IN  LevelsResult(cs, cls, stg)

(***************************************************************************)
(* The inputs.  Prices are near 1.00 with three decimals, where the        *)
(* default proximity of 0.6% (0.006 of the price) is finer than a cent.    *)
(***************************************************************************)
Price(thousandths) == Rat(thousandths, 1000)

\* the price ranges a candle may have (high >= low); the last one is flat
Shapes ==
    { [low |-> Price(1006), high |-> Price(1011)],
      [low |-> Price(1011), high |-> Price(1013)],
      [low |-> Price(1013), high |-> Price(1020)],
      [low |-> Price(1020), high |-> Price(1020)] }

\* the separators of the alternating sequences: the lowest and the highest shape
Separators ==
    { [low |-> Price(1006), high |-> Price(1011)],
      [low |-> Price(1020), high |-> Price(1020)] }

\* the volume of the candle at position j (1-based) under each profile
VolumeProfiles == {"none", "mixed"}

VolumeAt(profile, j) ==
    CASE profile = "none"  -> << >>
      [] profile = "mixed" -> CASE j = 2 -> << 12 >>
                                [] j = 3 -> << >>
                                [] j = 4 -> << 0 >>
                                [] OTHER -> << 1 >>

\* every sequence of at most MaxLen shapes
ShortSequences == UNION { [1..n -> Shapes] : n \in 0..MaxLen }

\* separator, swing, separator, ..., separator with m swings, the
\* separator the same throughout
SwingSequences ==
    UNION { { [j \in 1..(2 * m + 1) |-> IF j % 2 = 1 THEN sep ELSE sw[j \div 2]] :
                sw \in [1..m -> Shapes], sep \in Separators } : m \in 1..MaxSwings }

\* separator, swing, separator, ..., separator with m times the same swing
RepeatedSequences ==
    UNION { { [j \in 1..(2 * m + 1) |-> IF j % 2 = 1 THEN sep ELSE sw] :
                sw \in Shapes, sep \in Separators } : m \in 1..MaxRepeats }

\* prices at the edge of the proximity test: 0.006 * 1.66 < 0.01 <= 0.006 * 1.67,
\* one range that reaches beyond the separator's on both sides, the
\* separator's own, and a low apart from the other two (three clusters)
EdgeShapes ==
    { [low |-> Price(1660), high |-> Price(1690)],
      [low |-> Price(1670), high |-> Price(1690)],
      [low |-> Price(1660), high |-> Price(1710)],
      [low |-> Price(1700), high |-> Price(1700)],
      [low |-> Price(1690), high |-> Price(1690)] }

EdgeSeparator == [low |-> Price(1700), high |-> Price(1700)]

\* separator, swing, separator, ..., separator with m swings of EdgeShapes
EdgeSequences ==
    UNION { { [j \in 1..(2 * m + 1) |-> IF j % 2 = 1 THEN EdgeSeparator ELSE sw[j \div 2]] :
                sw \in [1..m -> EdgeShapes] } : m \in 1..MaxSwings }

\* the shapes in ascending order of their lows
ByLow == << [low |-> Price(1006), high |-> Price(1011)],
            [low |-> Price(1011), high |-> Price(1013)],
            [low |-> Price(1013), high |-> Price(1020)],
            [low |-> Price(1020), high |-> Price(1020)] >>

\* every sequence whose lows strictly descend to one candle and strictly
\* ascend after it
DipSequences ==
    { [j \in 1..Len(ranks) |-> ByLow[ranks[j]]] :
        ranks \in { r \in UNION { [1..n -> 1..Len(ByLow)] : n \in 1..(2 * Len(ByLow) - 1) } :
                      \E m \in 1..Len(r) :
                         /\ \A j \in 1..(m - 1) : r[j] > r[j + 1]
                         /\ \A j \in m..(Len(r) - 1) : r[j] < r[j + 1] } }

\* the sequences run under every option record, and those run under
\* LongOptions
InputSequences == ShortSequences \cup RepeatedSequences \cup DipSequences

LongSequences == SwingSequences \cup EdgeSequences

MakeCandles(shapes, profile) ==
    [ j \in 1..Len(shapes) |->
        [ time |-> j, high |-> shapes[j].high, low |-> shapes[j].low,
          volume |-> VolumeAt(profile, j) ] ]

OptionsSet ==
    [ swingLookback         : {<< 1 >>},
      proximityPercent      : {<< >>},
      maxLevelsPerSide      : {<< 1 >>, << 2 >>},
      useVolumeConfirmation : {<< TRUE >>, << FALSE >>} ]
    \cup
    [ swingLookback         : {<< 2 >>},
      proximityPercent      : {<< >>},
      maxLevelsPerSide      : {<< 1 >>},
      useVolumeConfirmation : {<< TRUE >>, << FALSE >>} ]
    \cup
    { [ swingLookback |-> << 1 >>, proximityPercent |-> << Rat(1, 100) >>,
        maxLevelsPerSide |-> << 2 >>, useVolumeConfirmation |-> << TRUE >> ] }
    \cup
    { [ swingLookback |-> << >>, proximityPercent |-> << >>,
        maxLevelsPerSide |-> << >>, useVolumeConfirmation |-> << >> ] }

\* the options of the alternating sequences: every swing a pivot and room for
\* two levels a side, or nothing set
LongOptions ==
    [ swingLookback         : {<< 1 >>},
      proximityPercent      : {<< >>},
      maxLevelsPerSide      : {<< 2 >>},
      useVolumeConfirmation : {<< TRUE >>, << FALSE >>} ]
    \cup
    { [ swingLookback |-> << >>, proximityPercent |-> << >>,
        maxLevelsPerSide |-> << >>, useVolumeConfirmation |-> << >> ] }

(***************************************************************************)
(* POST /api/analysis (src/server.ts).  A JavaScript value is a record     *)
(* with its typeof in `type`; a string is its sequence of words, blanks    *)
(* between and around them being the word " ".                             *)
(***************************************************************************)
Undefined == [type |-> "undefined"]

Null == [type |-> "null"]

Num(n) == [type |-> "number", value |-> n]

Str(words) == [type |-> "string", text |-> words]

Obj(fields) == [type |-> "object", fields |-> fields]

\* String.prototype.trim
RECURSIVE TrimStart(_)
TrimStart(words) ==
    IF words # << >> /\ Head(words) = " " THEN TrimStart(Tail(words)) ELSE words

RECURSIVE TrimEnd(_)
TrimEnd(words) ==
    IF words # << >> /\ words[Len(words)] = " "
    THEN TrimEnd(SubSeq(words, 1, Len(words) - 1)) ELSE words

Trim(words) == TrimEnd(TrimStart(words))

\* String.prototype.includes, on whole words
Includes(words, needle) ==
    \E s \in 0..(Len(words) - Len(needle)) : SubSeq(words, s + 1, s + Len(needle)) = needle

\* new Error(message), new SyntaxError(message)
Error(message) == [name |-> "Error", message |-> message]

SyntaxError(message) == [name |-> "SyntaxError", message |-> message]

Thrown(error) == [threw |-> TRUE, error |-> error]

Returned(value) == [threw |-> FALSE, value |-> value]

\* lines 26-29 (the replacement of line breaks and the cut to 600 characters
\* are beyond the strings of the model)
sanitizeContext(input) ==
    IF input.type = "undefined" \/ input.text = << >> THEN Undefined
    ELSE Str(Trim(input.text))

\* lines 31-49
validateAnalysisRequest(body) ==
    IF body.type # "object"
    THEN Thrown(Error(<<"Invalid", "request", "payload">>))
    ELSE LET parsed == body.fields
         IN  IF parsed.symbol.type # "string" \/ Trim(parsed.symbol.text) = << >>
             THEN Thrown(Error(<<"symbol", "is", "required">>))
             ELSE IF parsed.context.type # "undefined" /\ parsed.context.type # "string"
             THEN Thrown(Error(<<"context", "must", "be", "a", "string">>))
             ELSE Returned([symbol  |-> Str(Trim(parsed.symbol.text)),
                            context |-> sanitizeContext(parsed.context)])

\* line 24
VALID_SIGNALS == {"Strong Buy", "Buy", "Hold", "Sell", "Strong Sell"}

\* lines 51-84 (the cuts to 30, 1000 characters and 5 factors are beyond
\* the strings of the model)
validateAnalysisOutput(value) ==
    IF value.type # "object"
    THEN Thrown(Error(<<"Invalid", "analysis", "output">>))
    ELSE LET parsed     == value.fields
             symbol     == IF parsed.symbol.type = "string" THEN Trim(parsed.symbol.text) ELSE << >>
             signal     == IF parsed.signal.type = "string" THEN parsed.signal.text ELSE << >>
             finite     == parsed.confidence.type = "number"
             summary    == IF parsed.summary.type = "string" THEN Trim(parsed.summary.text) ELSE << >>
             keyFactors == parsed.keyFactors
         IN  IF symbol = << >> \/ Len(signal) # 1 \/ signal[1] \notin VALID_SIGNALS
             THEN Thrown(Error(<<"Invalid", "symbol", "or", "signal">>))
             ELSE IF ~ finite \/ parsed.confidence.value < 0 \/ parsed.confidence.value > 100
             THEN Thrown(Error(<<"Invalid", "confidence">>))
             ELSE IF summary = << >> \/ Len(keyFactors) = 0
             THEN Thrown(Error(<<"Invalid", "summary", "or", "key", "factors">>))
             ELSE Returned([symbol |-> symbol, signal |-> signal[1],
                            confidence |-> parsed.confidence.value,
                            summary |-> summary, keyFactors |-> keyFactors])

\* the request bodies express.json() hands to the handler
SymbolValues ==
    { Undefined, Num(5), Str(<< >>), Str(<<" ">>), Str(<<"NVDA">>), Str(<<" ", "AAPL", " ">>) }

ContextValues == { Undefined, Num(5), Str(<< >>), Str(<<"Timeframe", " ", "D">>) }

Bodies ==
    { Undefined, Null, Num(5), Str(<<"NVDA">>) }
    \cup { Obj([symbol |-> s, context |-> c]) : s \in SymbolValues, c \in ContextValues }

\* process.env.GEMINI_API_KEY: absent, or a key
ApiKeys == { Undefined, Str(<<"key">>) }

\* what the provider's JSON text may parse to
GoodOutput ==
    [ symbol |-> Str(<<"NVDA">>), signal |-> Str(<<"Buy">>), confidence |-> Num(72),
      summary |-> Str(<<"Momentum", " ", "holds">>), keyFactors |-> <<"volume">> ]

Outputs ==
    { Null,
      Obj(GoodOutput),
      Obj([GoodOutput EXCEPT !.signal = Str(<<"Maybe">>)]),
      Obj([GoodOutput EXCEPT !.confidence = Num(140)]),
      Obj([GoodOutput EXCEPT !.summary = Str(<<" ">>)]) }

\* what ai.models.generateContent may do: reject, or resolve to a response
\* whose text is absent, is not JSON, or is the JSON of an output
ProviderOutcomes ==
    { Thrown(Error(<<"fetch", "failed">>)),
      Returned([text |-> Undefined]),
      Returned([text |-> [type |-> "string", json |-> FALSE]]) }
    \cup { Returned([text |-> [type |-> "string", json |-> TRUE, value |-> o]]) : o \in Outputs }

\* line 127: JSON.parse
JSONParse(text) ==
    IF text.json THEN Returned(text.value)
    ELSE Thrown(SyntaxError(<<"Unexpected", "token">>))

\* no request is being handled
NoRequest == [at |-> "idle"]

(***************************************************************************)
(* One invocation of computeTechnicalLevels, statement by statement.       *)
(***************************************************************************)
NoResult == << >>

settings == ResolveSettings(options)

Init ==
    /\ \/ /\ \E shapes \in InputSequences, profile \in VolumeProfiles :
                candles = MakeCandles(shapes, profile)
          /\ options \in OptionsSet
       \/ /\ \E shapes \in LongSequences, profile \in VolumeProfiles :
                candles = MakeCandles(shapes, profile)
          /\ options \in LongOptions
    /\ pc = "start"
    /\ avgVol = RInt(0)
    /\ i = 0
    /\ pivots = << >>
    /\ k = 0
    /\ clusters = << >>
    /\ result = NoResult
    /\ analysis = NoRequest
    /\ levelsRoute = NoRequest

\* lines 139-152: too few candles, the empty result
InsufficientCandles ==
    /\ pc = "start"
    /\ Len(candles) < settings.swingLookback * 2 + 1
    /\ result' = EmptyResult(settings)
    /\ pc' = "done"
    /\ UNCHANGED <<levelsRoute, analysis, candles, options, avgVol, i, pivots, k, clusters>>

\* mutant of StartDetection: averageVolume removes the candles without volume
\* from the array it was given
StartDetection_FiltersInPlace ==
    /\ pc = "start"
    /\ ~ (Len(candles) < settings.swingLookback * 2 + 1)
    /\ avgVol' = averageVolume(candles)
    /\ candles' = SelectSeq(candles, LAMBDA c : c.volume # << >>)
    /\ i' = settings.swingLookback
    /\ pc' = "detect"
    /\ UNCHANGED <<levelsRoute, analysis, options, pivots, k, clusters, result>>

\* mutant of StartDetection: the early return of line 139 is missing
StartDetection_NoGuard ==
    /\ pc = "start"
    /\ avgVol' = averageVolume(candles)
    /\ i' = settings.swingLookback
    /\ pc' = "detect"
    /\ UNCHANGED <<levelsRoute, analysis, candles, options, pivots, k, clusters, result>>

\* lines 154-157: the volume baseline, and the detection loop starts
StartDetection ==
    /\ pc = "start"
    /\ ~ (Len(candles) < settings.swingLookback * 2 + 1)
    /\ avgVol' = averageVolume(candles)
    /\ i' = settings.swingLookback
    /\ pc' = "detect"
    /\ UNCHANGED <<levelsRoute, analysis, candles, options, pivots, k, clusters, result>>

(***************************************************************************)
(* The minimum-data boundary of the detection loop.                        *)
(***************************************************************************)
\* mutant of DetectPivot: the loop index is not advanced
DetectPivot_NoIncrement ==
    /\ pc = "detect"
    /\ i < Len(candles) - settings.swingLookback
    /\ pivots' = pivots \o PivotsAt(candles, i, settings.swingLookback, avgVol)
    /\ i' = i
    /\ UNCHANGED <<levelsRoute, analysis, candles, options, pc, avgVol, k, clusters, result>>

\* mutant of DetectPivot: the loop bound is inclusive
DetectPivot_Inclusive ==
    /\ pc = "detect"
    /\ i <= Len(candles) - settings.swingLookback
    /\ pivots' = pivots \o PivotsAt(candles, i, settings.swingLookback, avgVol)
    /\ i' = i + 1
    /\ UNCHANGED <<levelsRoute, analysis, candles, options, pc, avgVol, k, clusters, result>>

\* lines 157-166: one iteration of the detection loop
DetectPivot ==
    /\ pc = "detect"
    /\ i < Len(candles) - settings.swingLookback
    /\ pivots' = pivots \o PivotsAt(candles, i, settings.swingLookback, avgVol)
    /\ i' = i + 1
    /\ UNCHANGED <<levelsRoute, analysis, candles, options, pc, avgVol, k, clusters, result>>

\* line 168, lines 80-83: the detection loop ends, clusterPivots starts
StartClustering ==
    /\ pc = "detect"
    /\ ~ (i < Len(candles) - settings.swingLookback)
    /\ clusters' = << >>
    /\ k' = 0
    /\ pc' = "cluster"
    /\ UNCHANGED <<levelsRoute, analysis, candles, options, avgVol, i, pivots, result>>

\* lines 83-114: one iteration of the clustering loop
ClusterPivot ==
    /\ pc = "cluster"
    /\ k < Len(pivots)
    /\ clusters' = AddPivot(clusters, pivots[k + 1], settings.proximityPercent,
                            settings.useVolumeConfirmation)
    /\ k' = k + 1
    /\ UNCHANGED <<levelsRoute, analysis, candles, options, pc, avgVol, i, pivots, result>>

\* lines 116 and 169-214: the clusters are scored and the result is returned
ReturnLevels ==
    /\ pc = "cluster"
    /\ k = Len(pivots)
    /\ result' = LevelsResult(candles, clusters, settings)
    /\ pc' = "done"
    /\ UNCHANGED <<levelsRoute, analysis, candles, options, avgVol, i, pivots, k, clusters>>

Next ==
    \/ InsufficientCandles
    \/ StartDetection
    \/ DetectPivot
    \/ StartClustering
    \/ ClusterPivot
    \/ ReturnLevels

Spec == Init /\ [][Next]_vars

(***************************************************************************)
(* One request to POST /api/analysis (src/server.ts, lines 224-243, with   *)
(* generateAnalysisWithGemini, lines 86-129), statement by statement.      *)
(* analysis.at is the handler's position; res is absent until a response   *)
(* is sent.  The request never calls computeTechnicalLevels.               *)
(***************************************************************************)
InitAnalysis ==
    /\ candles = << >>
    /\ options = [ swingLookback |-> << >>, proximityPercent |-> << >>,
                   maxLevelsPerSide |-> << >>, useVolumeConfirmation |-> << >> ]
    /\ pc = "idle"
    /\ avgVol = RInt(0)
    /\ i = 0
    /\ pivots = << >>
    /\ k = 0
    /\ clusters = << >>
    /\ result = NoResult
    /\ levelsRoute = NoRequest
    /\ \E body \in Bodies, key \in ApiKeys :
          analysis = [ at            |-> "received",
                       body          |-> body,
                       geminiApiKey  |-> key,
                       payload       |-> Undefined,
                       providerCalls |-> 0,
                       response      |-> Undefined,
                       output        |-> Undefined,
                       error         |-> Undefined,
                       res           |-> Undefined ]

levels == <<candles, options, pc, avgVol, i, pivots, k, clusters, result>>

\* line 226
ValidateRequest ==
    /\ analysis.at = "received"
    /\ LET r == validateAnalysisRequest(analysis.body)
       IN  analysis' = IF r.threw
                       THEN [analysis EXCEPT !.at = "caught", !.error = r.error]
                       ELSE [analysis EXCEPT !.at = "validated", !.payload = r.value]
    /\ UNCHANGED <<levels, levelsRoute>>

\* lines 87-91: no API key, the provider is not called
MissingApiKey ==
    /\ analysis.at = "validated"
    /\ analysis.geminiApiKey.type = "undefined"
    /\ analysis' = [analysis EXCEPT
                      !.at = "caught",
                      !.error = Error(<<"GEMINI_API_KEY", "is", "not", "configured">>)]
    /\ UNCHANGED <<levels, levelsRoute>>

\* lines 93-121: the provider is called and rejects or answers
CallProvider ==
    /\ analysis.at = "validated"
    /\ analysis.geminiApiKey.type # "undefined"
    /\ \E outcome \in ProviderOutcomes :
          analysis' = IF outcome.threw
                      THEN [analysis EXCEPT !.at = "caught", !.error = outcome.error,
                                            !.providerCalls = @ + 1]
                      ELSE [analysis EXCEPT !.at = "answered", !.response = outcome.value,
                                            !.providerCalls = @ + 1]
    /\ UNCHANGED <<levels, levelsRoute>>

\* lines 123-128: the answer is read, parsed and validated
ReadResponse ==
    /\ analysis.at = "answered"
    /\ LET text   == analysis.response.text
           parsed == JSONParse(text)
           valid  == validateAnalysisOutput(parsed.value)
       IN  analysis' =
             IF text.type = "undefined"
             THEN [analysis EXCEPT !.at = "caught",
                                   !.error = Error(<<"Gemini", "returned", "empty", "response">>)]
             ELSE IF parsed.threw
             THEN [analysis EXCEPT !.at = "caught", !.error = parsed.error]
             ELSE IF valid.threw
             THEN [analysis EXCEPT !.at = "caught", !.error = valid.error]
             ELSE [analysis EXCEPT !.at = "generated", !.output = valid.value]
    /\ UNCHANGED <<levels, levelsRoute>>

\* line 229: res.json(analysis)
SendAnalysis ==
    /\ analysis.at = "generated"
    /\ analysis' = [analysis EXCEPT
                      !.at = "sent",
                      !.res = [status |-> 200, json |-> analysis.output]]
    /\ UNCHANGED <<levels, levelsRoute>>

\* lines 230-241: the catch block
CatchError ==
    /\ analysis.at = "caught"
    /\ LET error   == analysis.error
           message == error.message
       IN  analysis' = [analysis EXCEPT
                          !.at = "sent",
                          !.res =
                             IF error.name = "SyntaxError"
                             THEN [status |-> 400, json |-> <<"Invalid", "JSON", "body">>]
                             ELSE IF \/ Includes(message, <<"required">>)
                                     \/ Includes(message, <<"Invalid", "request">>)
                             THEN [status |-> 400, json |-> message]
                             ELSE [status |-> 503, json |-> <<"analysis", "unavailable">>]]
    /\ UNCHANGED <<levels, levelsRoute>>

NextAnalysis ==
    \/ ValidateRequest
    \/ MissingApiKey
    \/ CallProvider
    \/ ReadResponse
    \/ SendAnalysis
    \/ CatchError

SpecAnalysis == InitAnalysis /\ [][NextAnalysis]_vars

(***************************************************************************)
(* GET /api/levels/:symbol (src/server.ts, lines 305-367).  The handler    *)
(* registers two chart callbacks and a timer; each runs to completion on   *)
(* the event loop, in any order.  The chart data comes from the market     *)
(* data client.                                                            *)
(***************************************************************************)
MaxUpdates == 2
MaxErrors == 2

NaN == [type |-> "nan"]

\* Number(value) on a query value: absent, or one of the texts used here
ToNumber(v) ==
    IF v.type = "undefined" THEN NaN
    ELSE IF v.text = <<"0">> THEN Num(RInt(0))
    ELSE IF v.text = <<"1">> THEN Num(RInt(1))
    ELSE IF v.text = <<"10">> THEN Num(RInt(10))
    ELSE IF v.text = <<"0.0005">> THEN Num(Rat(1, 2000))
    ELSE IF v.text = <<"0.01">> THEN Num(Rat(1, 100))
    ELSE NaN

\* Number(value) || dflt: NaN and 0 are falsy
NumberOr(v, dflt) ==
    LET n == ToNumber(v)
    IN  IF n.type = "nan" \/ n.value = RInt(0) THEN dflt ELSE n.value

\* the query strings of a request
Queries ==
    [ lookback              : {Undefined, Str(<<"10">>)},
      swingLookback         : {Undefined, Str(<<"1">>), Str(<<"abc">>)},
      proximityPercent      : {Undefined, Str(<<"0">>), Str(<<"0.0005">>), Str(<<"0.01">>)},
      useVolumeConfirmation : {Undefined, Str(<<"false">>)} ]

\* lines 308-311; swingLookback is whole for the query values used
RouteSettings(query) ==
    [ lookback              |-> RMax(RInt(50), NumberOr(query.lookback, RInt(200))).n,
      swingLookback         |-> RMax(RInt(2), NumberOr(query.swingLookback, RInt(3))).n,
      proximityPercent      |-> RMax(Rat(1, 1000),
                                     NumberOr(query.proximityPercent, Rat(6, 1000))),
      useVolumeConfirmation |-> query.useVolumeConfirmation # Str(<<"false">>) ]

\* chart.periods, newest first: nothing yet, or five periods with a swing
\* low in the middle
ChartPeriods ==
    { << >>,
      [ j \in 1..5 |->
          [ time   |-> 6 - j,
            max    |-> IF j = 3 THEN Price(1011) ELSE Price(1020),
            min    |-> IF j = 3 THEN Price(1006) ELSE Price(1020),
            volume |-> 1 ] ] }

\* lines 325-334: map to candles, then reverse
CandlesOf(periods) ==
    [ j \in 1..Len(periods) |->
        LET period == periods[Len(periods) + 1 - j]
        IN  [ time |-> period.time, high |-> period.max, low |-> period.min,
              volume |-> << period.volume >> ] ]

\* res.status(code).json(body): the response goes out and headersSent is set
Json(res, code, body) ==
    [ headersSent |-> TRUE,
      sent        |-> Append(res.sent, [status |-> code, json |-> body]) ]

InitLevels ==
    /\ candles = << >>
    /\ options = [ swingLookback |-> << >>, proximityPercent |-> << >>,
                   maxLevelsPerSide |-> << >>, useVolumeConfirmation |-> << >> ]
    /\ pc = "idle"
    /\ avgVol = RInt(0)
    /\ i = 0
    /\ pivots = << >>
    /\ k = 0
    /\ clusters = << >>
    /\ result = NoResult
    /\ analysis = NoRequest
    /\ \E query \in Queries :
          levelsRoute = [ at          |-> "received",
                          query       |-> query,
                          onUpdate    |-> FALSE,
                          onError     |-> FALSE,
                          timer       |-> "none",
                          periods     |-> << >>,
                          updates     |-> 0,
                          errors      |-> 0,
                          computed    |-> 0,
                          clientEnded |-> FALSE,
                          res         |-> [headersSent |-> FALSE, sent |-> << >>] ]

rest == <<levels, analysis>>

\* lines 313-360: the try block runs through, callbacks and timer are set
Setup ==
    /\ levelsRoute.at = "received"
    /\ levelsRoute' = [levelsRoute EXCEPT !.at = "listening", !.onUpdate = TRUE,
                                          !.onError = TRUE, !.timer = "set"]
    /\ UNCHANGED rest

\* lines 361-366: the try block throws, before any callback is registered
\* or after chart.onUpdate was, and the catch block answers
SetupThrows ==
    /\ levelsRoute.at = "received"
    /\ \E registered \in BOOLEAN :
          levelsRoute' = [levelsRoute EXCEPT
                            !.at = "failed",
                            !.onUpdate = registered,
                            !.res = IF ~ levelsRoute.res.headersSent
                                    THEN Json(@, 500, <<"Internal", "server", "error">>)
                                    ELSE @]
    /\ UNCHANGED rest

\* mutant of OnUpdate: the callback does not look at res.headersSent
OnUpdate_Unguarded ==
    /\ levelsRoute.onUpdate
    /\ levelsRoute.updates < MaxUpdates
    /\ \E periods \in ChartPeriods :
          levelsRoute' =
             IF periods = << >>
             THEN [levelsRoute EXCEPT !.periods = periods, !.updates = @ + 1]
             ELSE [levelsRoute EXCEPT
                     !.periods = periods,
                     !.updates = @ + 1,
                     !.computed = @ + 1,
                     !.res = Json(@, 200, <<"levels">>),
                     !.clientEnded = TRUE]
    /\ UNCHANGED rest

\* lines 322-345: the chart has new data (or none yet) and calls back
OnUpdate ==
    /\ levelsRoute.onUpdate
    /\ levelsRoute.updates < MaxUpdates
    /\ \E periods \in ChartPeriods :
          levelsRoute' =
             IF periods = << >> \/ levelsRoute.res.headersSent
             THEN [levelsRoute EXCEPT !.periods = periods, !.updates = @ + 1]
             ELSE LET stg    == RouteSettings(levelsRoute.query)
                      answer == computeTechnicalLevels(
                                   CandlesOf(periods),
                                   [ swingLookback         |-> << stg.swingLookback >>,
                                     proximityPercent      |-> << stg.proximityPercent >>,
                                     maxLevelsPerSide      |-> << 4 >>,
                                     useVolumeConfirmation |-> << stg.useVolumeConfirmation >> ])
                  IN  [levelsRoute EXCEPT
                         !.periods = periods,
                         !.updates = @ + 1,
                         !.computed = @ + 1,
                         !.res = Json(@, 200, answer),
                         !.clientEnded = TRUE]
    /\ UNCHANGED rest

\* lines 347-353
OnError ==
    /\ levelsRoute.onError
    /\ levelsRoute.errors < MaxErrors
    /\ levelsRoute' = [levelsRoute EXCEPT
                         !.errors = @ + 1,
                         !.clientEnded = TRUE,
                         !.res = IF ~ levelsRoute.res.headersSent
                                 THEN Json(@, 500, <<"Failed", "to", "compute", "levels">>)
                                 ELSE @]
    /\ UNCHANGED rest

\* lines 355-360: the timer fires, once
Timeout ==
    /\ levelsRoute.timer = "set"
    /\ levelsRoute' =
          IF ~ levelsRoute.res.headersSent
          THEN [levelsRoute EXCEPT
                  !.timer = "fired",
                  !.clientEnded = TRUE,
                  !.res = Json(@, 504, <<"Timeout", "fetching", "levels">>)]
          ELSE [levelsRoute EXCEPT !.timer = "fired"]
    /\ UNCHANGED rest

NextLevels ==
    \/ Setup
    \/ SetupThrows
    \/ OnUpdate
    \/ OnError
    \/ Timeout

SpecLevels == InitLevels /\ [][NextLevels]_vars

(***************************************************************************)
(* Properties.                                                             *)
(***************************************************************************)
Done == pc = "done"

Kinds == {"support", "resistance"}

ClustersOf(kind) == SelectSeq(clusters, LAMBDA c : c.kind = kind)

PivotsOf(kind) == SelectSeq(pivots, LAMBDA p : p.kind = kind)

Detailed(kind) ==
    IF kind = "support" THEN result.metadata.detailedLevels.support
    ELSE result.metadata.detailedLevels.resistance

Reported(kind) ==
    IF kind = "support" THEN result.supportLevels ELSE result.resistanceLevels

\* C1: the result has at most maxLevelsPerSide entries in supportLevels and in
\* resistanceLevels, and in metadata.detailedLevels.support and .resistance.
C1_LevelCap ==
    Done => \A kind \in Kinds :
               /\ Len(Reported(kind)) <= settings.maxLevelsPerSide
               /\ Len(Detailed(kind)) <= settings.maxLevelsPerSide

\* C1 witness: a side with more clusters than maxLevelsPerSide, cut to the cap
C1_Witness ==
    /\ Done
    /\ \E kind \in Kinds :
          /\ Len(ClustersOf(kind)) > settings.maxLevelsPerSide
          /\ Len(Reported(kind)) = settings.maxLevelsPerSide

\* C3: every level of metadata.detailedLevels has an integer confidence
\* between 0 and 100.
C3_ConfidenceBound ==
    Done => \A kind \in Kinds : \A j \in 1..Len(Detailed(kind)) :
               Detailed(kind)[j].confidence \in 0..100

\* C3 witness: a level whose raw score is above 100 and is emitted as 100
C3_Witness ==
    /\ Done
    /\ \E c \in 1..Len(clusters) :
          LET touches == countTouches(candles, clusters[c].avgPrice, settings.proximityPercent)
              level   == LevelOf(candles, clusters[c], settings.proximityPercent)
          IN  /\ RLt(RInt(100), RawScore(clusters[c], touches))
              /\ \E j \in 1..Len(Detailed(clusters[c].kind)) :
                    Detailed(clusters[c].kind)[j] = level
              /\ level.confidence = 100

\* C4: with fewer than 2*swingLookback + 1 candles the result is the empty
\* result (no levels, confidence 0, no touch counts, no detailed levels, the
\* fixed method, the resolved settings), and no pivot detection, clustering
\* or scoring takes place.
C4_InsufficientCandles ==
    Len(candles) < 2 * settings.swingLookback + 1 =>
        /\ pc \in {"start", "done"}
        /\ pivots = << >> /\ clusters = << >> /\ i = 0 /\ k = 0
        /\ Done =>
              /\ result.supportLevels = << >>
              /\ result.resistanceLevels = << >>
              /\ result.metadata.confidence = 0
              /\ DOMAIN result.metadata.touchCounts = {}
              /\ result.metadata.detailedLevels.support = << >>
              /\ result.metadata.detailedLevels.resistance = << >>
              /\ result.metadata.method = "deterministic:pivot-cluster-touch-score"
              /\ result.metadata.settings = ResolveSettings(options)

\* C4 witness: a returned result for exactly 2*swingLookback candles
C4_Witness ==
    /\ Done
    /\ Len(candles) = 2 * settings.swingLookback
    /\ result.metadata.confidence = 0

\* C2 (as claimed): supportLevels and resistanceLevels are each strictly
\* ascending, also after the rounding of prices to 2 decimal places.
C2_StrictlyAscending ==
    Done => \A kind \in Kinds : \A j \in 1..(Len(Reported(kind)) - 1) :
               RLt(Reported(kind)[j], Reported(kind)[j + 1])

\* the price ranges of the candles, without their volumes
ShapesOf(cs) == [j \in 1..Len(cs) |-> [low |-> cs[j].low, high |-> cs[j].high]]

\* C6: with useVolumeConfirmation = false, a candle sequence with the same
\* time, high and low in every candle and any other volumes (absent ones
\* included) yields the same levels, per-level confidence and touches, and
\* aggregate confidence.
C6_VolumeNonInterference ==
    (Done /\ ~ settings.useVolumeConfirmation) =>
        \A profile \in VolumeProfiles :
            LET other == computeTechnicalLevels(MakeCandles(ShapesOf(candles), profile), options)
            IN  /\ result.supportLevels = other.supportLevels
                /\ result.resistanceLevels = other.resistanceLevels
                /\ result.metadata.detailedLevels = other.metadata.detailedLevels
                /\ result.metadata.confidence = other.metadata.confidence

\* C6 witness: a result under useVolumeConfirmation = false for candles whose
\* volumes change the levels' confidence when the flag is true
C6_Witness ==
    /\ Done
    /\ ~ settings.useVolumeConfirmation
    /\ Len(clusters) > 0
    /\ LET flagged == computeTechnicalLevels(candles,
                         [options EXCEPT !.useVolumeConfirmation = << TRUE >>])
       IN  flagged.metadata.detailedLevels # result.metadata.detailedLevels

\* the distance of two prices is above proximityPercent times the lower one
Separated(p, q) ==
    RLt(RMul(settings.proximityPercent, RMin(p, q)), RAbs(RSub(p, q)))

\* C7 (as claimed): within each side of the result no two levels are closer
\* than the proximity threshold, as a consequence of clustering alone: for two
\* levels p < q of one side, q - p > proximityPercent * p.  Stated on the
\* unrounded averages of the clusters behind the levels, when every cluster of
\* the side is retained as a level.
C7_LevelsSeparated ==
    Done => \A kind \in Kinds :
               Len(ClustersOf(kind)) <= settings.maxLevelsPerSide =>
                   \A c, e \in 1..Len(ClustersOf(kind)) :
                       c < e => Separated(ClustersOf(kind)[c].avgPrice,
                                          ClustersOf(kind)[e].avgPrice)

\* a pivot that has opened a cluster was, at that moment, farther than
\* proximityPercent times the lower price from the average of every
\* cluster of its kind
OpenedApart ==
    (pc = "cluster" /\ Len(clusters') = Len(clusters) + 1) =>
        \A c \in 1..Len(clusters) :
            clusters[c].kind = clusters'[Len(clusters')].kind =>
                Separated(clusters[c].avgPrice, clusters'[Len(clusters')].avgPrice)

\* two clusters of one kind that hold one pivot each are separated
SinglePivotClustersSeparated ==
    \A c, e \in 1..Len(clusters) :
        ( /\ c < e
          /\ clusters[c].kind = clusters[e].kind
          /\ clusters[c].pivotCount = 1
          /\ clusters[e].pivotCount = 1 ) =>
            Separated(clusters[c].avgPrice, clusters[e].avgPrice)

\* C7 (amended): a cluster is opened only farther than the proximity
\* threshold (proximityPercent times the lower price) from the current
\* unrounded average of every cluster of its kind, so any two clusters of one
\* kind that hold one pivot each are separated by more than the threshold.
C7_SeparatedWhenOpened ==
    [] SinglePivotClustersSeparated /\ [][OpenedApart]_vars

\* C7 witness: a cluster has been opened beside a cluster of its kind that
\* holds several pivots, and the two averages are now closer than the threshold
C7_Witness ==
    /\ Done
    /\ \E c, e \in 1..Len(clusters) :
          /\ c < e
          /\ clusters[c].kind = clusters[e].kind
          /\ clusters[c].pivotCount > 1
          /\ clusters[e].pivotCount = 1
          /\ ~ Separated(clusters[c].avgPrice, clusters[e].avgPrice)

\* exactly two pivots of the kind, at different candles, whose prices differ
\* by at most proximityPercent times the lower one
TwoClosePivots(kind) ==
    LET ps == PivotsOf(kind)
    IN  /\ Len(ps) = 2
        /\ ps[1].time # ps[2].time
        /\ RLe(RAbs(RSub(ps[1].price, ps[2].price)),
               RMul(settings.proximityPercent, RMin(ps[1].price, ps[2].price)))

\* C8: when the candles yield exactly two pivots of one kind, at different
\* candles, with |p1 - p2| <= proximityPercent * min(p1, p2), clustering
\* produces exactly one cluster of that kind, with pivotCount = 2, and the
\* result contains exactly one level on that side.
C8_TwoExcursionsMerge ==
    Done => \A kind \in Kinds :
               TwoClosePivots(kind) =>
                   /\ Len(ClustersOf(kind)) = 1
                   /\ ClustersOf(kind)[1].pivotCount = 2
                   /\ Len(Reported(kind)) = 1
                   /\ Len(Detailed(kind)) = 1

\* C8 witness: two support pivots of different prices within the threshold
\* have been clustered and the result returned
C8_Witness ==
    /\ Done
    /\ TwoClosePivots("support")
    /\ PivotsOf("support")[1].price # PivotsOf("support")[2].price
    /\ Len(Reported("support")) = 1

\* the lows strictly descend to candle m (1-based) and strictly ascend after
\* it, with at least swingLookback candles on each side of m
VShapedAt(m) ==
    /\ m \in 1..Len(candles)
    /\ \A j \in 1..(m - 1) : RLt(candles[j + 1].low, candles[j].low)
    /\ \A j \in m..(Len(candles) - 1) : RLt(candles[j].low, candles[j + 1].low)
    /\ m - 1 >= settings.swingLookback
    /\ Len(candles) - m >= settings.swingLookback

\* C9: for lows that strictly descend to a single minimum candle and then
\* strictly ascend, with at least swingLookback candles on each side of the
\* minimum, exactly one support pivot is detected, at the minimum; it forms
\* exactly one support cluster, and the support level has touches >= 1.
C9_SingleDip ==
    Done => \A m \in 1..Len(candles) :
               VShapedAt(m) =>
                   /\ Len(PivotsOf("support")) = 1
                   /\ PivotsOf("support")[1].time = candles[m].time
                   /\ PivotsOf("support")[1].price = candles[m].low
                   /\ Len(ClustersOf("support")) = 1
                   /\ ClustersOf("support")[1].pivotCount = 1
                   /\ Len(Detailed("support")) = 1
                   /\ Detailed("support")[1].touches >= 1

\* C9 witness: a returned result for a V-shaped sequence that has candles on
\* both sides of the dip beyond the lookback window
C9_Witness ==
    /\ Done
    /\ \E m \in 1..Len(candles) :
          /\ VShapedAt(m)
          /\ m - 1 > settings.swingLookback
          /\ Len(Detailed("support")) = 1

\* every candle has the same high and low, and they are equal
Flat ==
    \A j \in 1..Len(candles) :
        /\ candles[j].high = candles[j].low
        /\ candles[j].high = candles[1].high

\* C10: for flat candles (every candle with the same open, high, low and
\* close), of any length, no pivot is detected and both level lists are empty,
\* with aggregate confidence 0.
C10_FlatCandles ==
    (Done /\ Flat) =>
        /\ pivots = << >>
        /\ result.supportLevels = << >>
        /\ result.resistanceLevels = << >>
        /\ result.metadata.confidence = 0

\* C10 witness: flat candles, long enough for the detection loop to have run
C10_Witness ==
    /\ Done
    /\ Flat
    /\ Len(candles) >= 2 * settings.swingLookback + 1
    /\ i = Len(candles) - settings.swingLookback

\* the detection loop has ended
Detected == pc \in {"cluster", "done"}

\* exactly as many candles as the early return of line 139 lets through
MinimumData == Len(candles) = 2 * settings.swingLookback + 1

\* C11 as stated: with 2 * swingLookback + 1 candles at most one PivotPoint
\* enters clustering.
C11_AtMostOnePivot == MinimumData => Len(pivots) <= 1

\* C11 (amended): with 2 * swingLookback + 1 candles the detection loop
\* examines index swingLookback and no other, and emits at most one pivot of
\* each kind, every one of the candle at that index: at most two PivotPoints
\* enter clustering.
C11_OnePivotPerKind ==
    MinimumData /\ pc # "start" =>
        /\ i \in {settings.swingLookback, settings.swingLookback + 1}
        /\ i = settings.swingLookback => pivots = << >>
        /\ \A kind \in Kinds : Len(PivotsOf(kind)) <= 1
        /\ \A n \in 1..Len(pivots) :
              pivots[n].time = candles[settings.swingLookback + 1].time
        /\ Len(pivots) <= 2

\* the one interior candle is a pivot high and a pivot low at once
C11_Witness == MinimumData /\ Detected /\ Len(pivots) = 2

\* the documented value of each setting: the option when it is set, else the
\* default of section 3
Resolved ==
    [ swingLookback         |-> IF options.swingLookback = << >> THEN 3
                                ELSE options.swingLookback[1],
      proximityPercent      |-> IF options.proximityPercent = << >> THEN Rat(6, 1000)
                                ELSE options.proximityPercent[1],
      maxLevelsPerSide      |-> IF options.maxLevelsPerSide = << >> THEN 4
                                ELSE options.maxLevelsPerSide[1],
      useVolumeConfirmation |-> IF options.useVolumeConfirmation = << >> THEN TRUE
                                ELSE options.useVolumeConfirmation[1] ]

\* the result computed from the documented values alone
ResultWith(stg) ==
    IF Len(candles) < stg.swingLookback * 2 + 1 THEN EmptyResult(stg)
    ELSE LevelsResult(candles,
                      clusterPivots(DetectFrom(candles, stg.swingLookback, stg.swingLookback,
                                               averageVolume(candles)),
                                    stg.proximityPercent, stg.useVolumeConfirmation),
                      stg)

\* C12: an unset option resolves to its default (3, 0.006, 4, true), a set one
\* is used unchanged; the detection loop, the clustering and the scoring run
\* on exactly these values, and metadata.settings echoes them on the normal
\* path and on the insufficient-candles path.
C12_SettingsResolution ==
    /\ pc = "detect" => i >= Resolved.swingLookback
    /\ Done =>
        /\ result.metadata.settings = Resolved
        /\ result = ResultWith(Resolved)
        /\ \A kind \in Kinds : Len(Reported(kind)) <= Resolved.maxLevelsPerSide

\* levels were found with every option left unset
C12_Witness ==
    /\ Done
    /\ options.swingLookback = << >> /\ options.proximityPercent = << >>
    /\ options.maxLevelsPerSide = << >> /\ options.useVolumeConfirmation = << >>
    /\ result.supportLevels # << >>
    /\ result.metadata.settings.swingLookback = 3

\* a bound on the number of steps to the return: every iteration of the
\* detection loop adds at most two pivots, and every pivot costs one
\* iteration of the clustering loop
Measure ==
    CASE pc = "start"   -> 3 * Len(candles) + 3
      [] pc = "detect"  -> 3 * (Len(candles) - settings.swingLookback - i) + Len(pivots) + 2
      [] pc = "cluster" -> Len(pivots) - k + 1
      [] pc = "done"    -> 0

\* the candle indices (0-based) that the iteration at index i reads
IndicesRead == (i - settings.swingLookback)..(i + settings.swingLookback)

\* all the fields of TechnicalLevelsResult are there, with values
CompleteResult ==
    /\ DOMAIN result = {"supportLevels", "resistanceLevels", "metadata"}
    /\ DOMAIN result.metadata =
          {"method", "confidence", "touchCounts", "detailedLevels", "settings"}
    /\ result.metadata.confidence \in 0..100
    /\ \A kind \in Kinds :
          /\ Len(Reported(kind)) = Len(Detailed(kind))
          /\ \A n \in 1..Len(Detailed(kind)) :
                /\ RLt(RInt(0), Detailed(kind)[n].price)
                /\ Detailed(kind)[n].touches \in 0..Len(candles)
                /\ Detailed(kind)[n].price \in DOMAIN result.metadata.touchCounts

\* the guard of one of the six actions holds
CanStep ==
    \/ pc = "start" /\ Len(candles) < settings.swingLookback * 2 + 1
    \/ pc = "start" /\ ~ (Len(candles) < settings.swingLookback * 2 + 1)
    \/ pc = "detect" /\ i < Len(candles) - settings.swingLookback
    \/ pc = "detect" /\ ~ (i < Len(candles) - settings.swingLookback)
    \/ pc = "cluster" /\ k < Len(pivots)
    \/ pc = "cluster" /\ k = Len(pivots)

Running ==
    /\ Done \/ CanStep
    /\ Measure \in Nat
    /\ pc = "detect" /\ i < Len(candles) - settings.swingLookback =>
          IndicesRead \subseteq 0..(Len(candles) - 1)
    /\ pc = "cluster" => k \in 0..Len(pivots)
    /\ \A n \in 1..Len(clusters) : RLt(RInt(0), clusters[n].totalWeight)
    /\ Done => CompleteResult

\* C13: on well-formed candles and settings (swingLookback >= 1,
\* proximityPercent > 0, maxLevelsPerSide >= 1) the call is never stuck before
\* it returns, every step brings the return nearer (so it terminates), every
\* candle index it reads is within 0..length-1, no division is by zero, and
\* the value returned is a complete result.
C13_Totality == [] Running /\ [][Measure' < Measure]_vars

\* the longest computation returned: levels on both sides after both loops ran
C13_Witness ==
    /\ Done
    /\ Len(candles) > 2 * settings.swingLookback + 1
    /\ result.supportLevels # << >> /\ result.resistanceLevels # << >>
    /\ k >= 3

\* C14: no step of the call changes the candle sequence (the candles, their
\* order, their fields) or the options; the sorts and the slice of the scoring
\* step work on the arrays that filter and map create, and leave the cluster
\* list and the pivot list as they were.
C14_InputsUnchanged ==
    [][ /\ candles' = candles
        /\ options' = options
        /\ pc' = "done" => clusters' = clusters /\ pivots' = pivots ]_vars

\* the call returned after a sort or the slice changed a list of levels
C14_Witness ==
    /\ Done
    /\ Len(candles) >= 2 * settings.swingLookback + 1
    /\ \E kind \in Kinds :
          /\ Len(Detailed(kind)) >= 1
          /\ Detailed(kind) # Candidates(candles, clusters, kind, settings)

(***************************************************************************)
(* POST /api/analysis.                                                     *)
(***************************************************************************)
\* the request passes request-field validation as the API summary words it:
\* the body is an object, symbol is a string that is not blank, and context
\* is absent or a string
ValidRequest ==
    /\ analysis.body.type = "object"
    /\ analysis.body.fields.symbol.type = "string"
    /\ \E w \in 1..Len(analysis.body.fields.symbol.text) :
          analysis.body.fields.symbol.text[w] # " "
    /\ analysis.body.fields.context.type \in {"undefined", "string"}

Sent == analysis.at = "sent"

\* C15: a request that fails request-field validation is answered with 400
\* and the provider is not called; 503 is sent only for a valid request, when
\* the API key is missing, the provider call fails or the provider's output
\* is rejected.
C15_ErrorClassification ==
    Sent =>
        /\ ~ ValidRequest => analysis.res.status = 400 /\ analysis.providerCalls = 0
        /\ analysis.res.status = 503 =>
              /\ ValidRequest
              /\ analysis.output = Undefined
              /\ \/ analysis.geminiApiKey.type = "undefined"
                 \/ analysis.providerCalls = 1

(***************************************************************************)
(* Pivot detection.                                                        *)
(***************************************************************************)
\* the other candles within swingLookback of index idx (0-based)
Neighbours(idx) ==
    { j \in 0..(Len(candles) - 1) : j # idx /\ Abs(j - idx) <= settings.swingLookback }

InRange(idx) ==
    settings.swingLookback <= idx /\ idx < Len(candles) - settings.swingLookback

StrictlyHighest(idx) ==
    \A j \in Neighbours(idx) : RLt(candles[j + 1].high, candles[idx + 1].high)

StrictlyLowest(idx) ==
    \A j \in Neighbours(idx) : RLt(candles[idx + 1].low, candles[j + 1].low)

\* the pivots of the given kind emitted for the candle at index idx
EmittedAt(kind, idx) ==
    SelectSeq(pivots, LAMBDA p : p.kind = kind /\ p.time = candles[idx + 1].time)

\* the detection loop has just ended: the pivots are final
JustDetected == pc = "cluster" /\ k = 0

\* C16: after detection, the candle at index i has a resistance pivot (one,
\* priced at its high) iff swingLookback <= i < length - swingLookback and
\* every other candle within swingLookback of i has a strictly lower high,
\* and a support pivot (one, priced at its low) iff i is in that range and
\* every such candle has a strictly higher low; an equal neighbour
\* disqualifies, no index outside the range has a pivot, and one candle may
\* have both.
C16_PivotDetection ==
    JustDetected =>
        /\ \A idx \in 0..(Len(candles) - 1) :
              /\ EmittedAt("resistance", idx) =
                    IF InRange(idx) /\ StrictlyHighest(idx)
                    THEN << [price  |-> candles[idx + 1].high,
                             time   |-> candles[idx + 1].time,
                             volume |-> NormalizedVolume(candles[idx + 1], avgVol),
                             kind   |-> "resistance"] >>
                    ELSE << >>
              /\ EmittedAt("support", idx) =
                    IF InRange(idx) /\ StrictlyLowest(idx)
                    THEN << [price  |-> candles[idx + 1].low,
                             time   |-> candles[idx + 1].time,
                             volume |-> NormalizedVolume(candles[idx + 1], avgVol),
                             kind   |-> "support"] >>
                    ELSE << >>
        /\ \A n \in 1..Len(pivots) :
              \E idx \in 0..(Len(candles) - 1) : pivots[n].time = candles[idx + 1].time

\* one candle emitted both pivots, and another candidate in range was
\* disqualified by nothing but an equal high of a neighbour
C16_Witness ==
    /\ JustDetected
    /\ \E idx \in 0..(Len(candles) - 1) :
          EmittedAt("resistance", idx) # << >> /\ EmittedAt("support", idx) # << >>
    /\ \E idx \in 0..(Len(candles) - 1) :
          /\ InRange(idx)
          /\ EmittedAt("resistance", idx) = << >>
          /\ \A j \in Neighbours(idx) : RLe(candles[j + 1].high, candles[idx + 1].high)

(***************************************************************************)
(* Clustering, one pivot at a time.                                        *)
(***************************************************************************)
\* this step is an iteration of the clustering loop, for the pivot Current
Clustering == pc = "cluster" /\ k' = k + 1

Current == pivots[k + 1]

\* the distance of the cluster's average to the pivot's price is at most
\* proximityPercent times the cluster's average
WithinOfAverage(cluster, pivot) ==
    /\ cluster.kind = pivot.kind
    /\ RLe(RAbs(RSub(cluster.avgPrice, pivot.price)),
           RMul(cluster.avgPrice, settings.proximityPercent))

\* ... at most proximityPercent times the pivot's price
WithinOfPivotPrice(cluster, pivot) ==
    /\ cluster.kind = pivot.kind
    /\ RLe(RAbs(RSub(cluster.avgPrice, pivot.price)),
           RMul(pivot.price, settings.proximityPercent))

Merged == Len(clusters') = Len(clusters)

Opened == Len(clusters') = Len(clusters) + 1

\* only clusters of the pivot's kind are touched
OwnKindOnly ==
    \A n \in 1..Len(clusters) : clusters'[n] # clusters[n] => clusters[n].kind = Current.kind

\* C17 as stated: the pivot is merged iff some cluster of its kind has
\* |avgPrice - pivot.price| <= avgPrice * proximityPercent, otherwise a new
\* cluster is opened; a cluster of the other kind is never the target.
C17_MergeWithinAverage ==
    [][ Clustering =>
          /\ Merged <=> \E n \in 1..Len(clusters) : WithinOfAverage(clusters[n], Current)
          /\ ~ Merged => Opened
          /\ OwnKindOnly ]_vars

\* C17 (amended): the pivot is merged iff some cluster of its kind has
\* |avgPrice - pivot.price| <= pivot.price * proximityPercent, the threshold
\* being computed from the pivot's price; otherwise a new cluster is opened;
\* a cluster of the other kind is never the target.
C17_MergeWithinPivotPrice ==
    [][ Clustering =>
          /\ Merged <=> \E n \in 1..Len(clusters) : WithinOfPivotPrice(clusters[n], Current)
          /\ ~ Merged => Opened
          /\ OwnKindOnly ]_vars

\* the clusters as they were before the pivot processed last
Before ==
    clusterPivots(SubSeq(pivots, 1, k - 1), settings.proximityPercent,
                  settings.useVolumeConfirmation)

\* the pivot processed last was merged into a cluster whose average is within
\* proximityPercent of the pivot's price and not of its own
C17_Witness ==
    /\ pc = "cluster" /\ k >= 2
    /\ Len(clusters) = Len(Before)
    /\ \E n \in 1..Len(Before) :
          /\ clusters[n] # Before[n]
          /\ WithinOfPivotPrice(Before[n], pivots[k])
          /\ ~ WithinOfAverage(Before[n], pivots[k])
    /\ \E n \in 1..Len(Before) : Before[n].kind # pivots[k].kind

\* the clusters of cls that satisfy the merge test for the pivot
Hits(cls, pivot) == {n \in 1..Len(cls) : WithinOfPivotPrice(cls[n], pivot)}

Earliest(hits) == CHOOSE n \in hits : \A h \in hits : n <= h

Gap(cluster, pivot) == RAbs(RSub(cluster.avgPrice, pivot.price))

\* the pivot list is in ascending candle order
PivotsAscending ==
    \A n \in 1..Len(pivots) : \A m \in n..Len(pivots) : pivots[n].time <= pivots[m].time

\* C18: the pivots are clustered in ascending candle order, one per step;
\* when clusters of the pivot's kind satisfy the merge test, the one created
\* first takes the pivot, whichever is nearest in price, and every other
\* cluster stays as it was; when none does, every cluster stays as it was and
\* one is appended.  Exactly one cluster changes per pivot.
C18_FirstFit ==
    /\ [] PivotsAscending
    /\ [][ Clustering =>
             LET hits == Hits(clusters, Current)
             IN  IF hits # {}
                 THEN /\ Len(clusters') = Len(clusters)
                      /\ clusters'[Earliest(hits)].pivotCount =
                            clusters[Earliest(hits)].pivotCount + 1
                      /\ \A n \in 1..Len(clusters) :
                            n # Earliest(hits) => clusters'[n] = clusters[n]
                 ELSE /\ Len(clusters') = Len(clusters) + 1
                      /\ \A n \in 1..Len(clusters) : clusters'[n] = clusters[n]
                      /\ clusters'[Len(clusters')].pivotCount = 1 ]_vars

\* the pivot processed last satisfied the test for two clusters, was nearer
\* to the later one and went to the earlier one
C18_Witness ==
    /\ pc = "cluster" /\ k >= 3
    /\ \E first \in Hits(Before, pivots[k]) : \E later \in Hits(Before, pivots[k]) :
          /\ first < later
          /\ RLt(Gap(Before[later], pivots[k]), Gap(Before[first], pivots[k]))
          /\ clusters[first].pivotCount = Before[first].pivotCount + 1
          /\ clusters[later] = Before[later]

\* the volume multiplier of the pivot
Weight(pivot) == VolumeMultiplier(pivot, settings.useVolumeConfirmation)

\* C19: a merge of a pivot with price p and multiplier w sets the cluster's
\* avgPrice to (avgPrice * totalWeight + p * w) / (totalWeight + w), adds w to
\* totalWeight and to volumeScore and 1 to touches and to pivotCount, and
\* keeps its kind; a pivot that opens a cluster appends, after all existing
\* clusters, one with avgPrice p, totalWeight w, volumeScore w, touches 1,
\* pivotCount 1 and the pivot's kind.
C19_ClusterUpdate ==
    [][ Clustering =>
          LET p == Current.price
              w == Weight(Current)
          IN  /\ Merged =>
                    /\ \E n \in 1..Len(clusters) : clusters'[n] # clusters[n]
                    /\ \A n \in 1..Len(clusters) :
                          clusters'[n] # clusters[n] =>
                             /\ clusters'[n].kind = clusters[n].kind
                             /\ clusters'[n].avgPrice =
                                   RDiv(RAdd(RMul(clusters[n].avgPrice, clusters[n].totalWeight),
                                             RMul(p, w)),
                                        RAdd(clusters[n].totalWeight, w))
                             /\ clusters'[n].totalWeight = RAdd(clusters[n].totalWeight, w)
                             /\ clusters'[n].volumeScore = RAdd(clusters[n].volumeScore, w)
                             /\ clusters'[n].touches = clusters[n].touches + 1
                             /\ clusters'[n].pivotCount = clusters[n].pivotCount + 1
              /\ ~ Merged =>
                    /\ SubSeq(clusters', 1, Len(clusters)) = clusters
                    /\ Len(clusters') = Len(clusters) + 1
                    /\ clusters'[Len(clusters')] =
                          [ kind |-> Current.kind, avgPrice |-> p, totalWeight |-> w,
                            volumeScore |-> w, touches |-> 1, pivotCount |-> 1 ] ]_vars

\* the pivot processed last was merged, at another price than the cluster's
\* average and with another weight than the cluster's, neither weight being 1
C19_Witness ==
    /\ pc = "cluster" /\ k >= 2
    /\ Len(clusters) = Len(Before)
    /\ \E n \in 1..Len(Before) :
          /\ clusters[n] # Before[n]
          /\ Before[n].avgPrice # pivots[k].price
          /\ Before[n].totalWeight # Weight(pivots[k])
          /\ Before[n].totalWeight # RInt(1)
          /\ Weight(pivots[k]) # RInt(1)
          /\ clusters[n].pivotCount = Before[n].pivotCount + 1

(***************************************************************************)
(* The volume multiplier.                                                  *)
(***************************************************************************)
\* the positions of the candles that carry a volume
Carrying == { j \in 1..Len(candles) : candles[j].volume # << >> }

RECURSIVE TotalVolume(_)
TotalVolume(js) ==
    IF js = {} THEN 0
    ELSE LET j == CHOOSE x \in js : TRUE
         IN  candles[j].volume[1] + TotalVolume(js \ {j})

\* the arithmetic mean of the volumes that are there
MeanVolume == Rat(TotalVolume(Carrying), Cardinality(Carrying))

Clamp(x, lo, hi) == IF RLt(x, lo) THEN lo ELSE IF RLt(hi, x) THEN hi ELSE x

\* the candle a pivot was taken from
CandleOf(pivot) == candles[CHOOSE j \in 1..Len(candles) : candles[j].time = pivot.time]

NoVolume(c) == c.volume = << >> \/ c.volume[1] = 0

\* the multiplier as the documentation defines it
ExpectedMultiplier(c) ==
    IF ~ settings.useVolumeConfirmation THEN RInt(1)
    ELSE IF NoVolume(c) \/ Carrying = {} THEN RInt(1)
    ELSE Clamp(RDiv(RInt(c.volume[1]), MeanVolume), Rat(1, 2), RInt(3))

\* C20: the multiplier clustering applies to a pivot of candle c is
\* clamp(c.volume / mean, 0.5, 3.0) under useVolumeConfirmation, the mean
\* taken over the candles that carry a volume; it is 1 when c has no volume
\* or volume 0 or no candle carries volume, and 1 for every pivot when
\* useVolumeConfirmation is false; it always lies in [0.5, 3.0].
C20_VolumeMultiplier ==
    Detected =>
        \A n \in 1..Len(pivots) :
            /\ Weight(pivots[n]) = ExpectedMultiplier(CandleOf(pivots[n]))
            /\ RLe(Rat(1, 2), Weight(pivots[n])) /\ RLe(Weight(pivots[n]), RInt(3))

\* under useVolumeConfirmation one pivot was clamped up to 0.5, one down to
\* 3, and one of a candle without volume got 1
C20_Witness ==
    /\ Detected
    /\ settings.useVolumeConfirmation
    /\ \E n \in 1..Len(pivots) :
          Weight(pivots[n]) = RInt(3) /\ RLt(RInt(3), pivots[n].volume)
    /\ \E n \in 1..Len(pivots) :
          Weight(pivots[n]) = Rat(1, 2) /\ RLt(pivots[n].volume, Rat(1, 2))
    /\ \E n \in 1..Len(pivots) :
          Weight(pivots[n]) = RInt(1) /\ NoVolume(CandleOf(pivots[n]))

(***************************************************************************)
(* Scoring and selection.                                                  *)
(***************************************************************************)
\* the call returned levels rather than the empty result of line 139
Scored == Done /\ Len(candles) >= 2 * settings.swingLookback + 1

\* the candles, of the whole input, whose range meets [P - P * prox, P + P * prox]
TouchRecount(P) ==
    LET reach == RMul(P, settings.proximityPercent)
    IN  Cardinality({ j \in 1..Len(candles) :
                        /\ RLe(candles[j].low, RAdd(P, reach))
                        /\ ~ RLt(candles[j].high, RSub(P, reach)) })

\* how often v occurs in the sequence s
Occurrences(s, v) == Cardinality({ n \in 1..Len(s) : s[n] = v })

\* what a cluster shows of itself in a level: rounded price and recount
PriceAndTouches(kind) ==
    [ n \in 1..Len(ClustersOf(kind)) |->
        [ price   |-> ToFixed2(ClustersOf(kind)[n].avgPrice),
          touches |-> TouchRecount(ClustersOf(kind)[n].avgPrice) ] ]

EmittedPriceAndTouches(kind) ==
    [ n \in 1..Len(Detailed(kind)) |->
        [ price |-> Detailed(kind)[n].price, touches |-> Detailed(kind)[n].touches ] ]

\* the clusters with their clustering-time counter overwritten
WithCounter(value) == [ n \in 1..Len(clusters) |-> [clusters[n] EXCEPT !.touches = value] ]

\* C21: the touches of every emitted level is the number of candles of the
\* whole input with low <= P + P * proximityPercent and
\* high >= P - P * proximityPercent, P the unrounded final avgPrice of the
\* level's cluster (each level from a cluster of its own); the cluster's own
\* touches counter changes nothing in the result, neither touches nor
\* confidence.
C21_TouchRecount ==
    Scored =>
        /\ \A kind \in Kinds :
              LET emitted == EmittedPriceAndTouches(kind) \o << >>
                  shown   == PriceAndTouches(kind) \o << >>
              IN  \A n \in 1..Len(emitted) :
                     Occurrences(emitted, emitted[n]) <= Occurrences(shown, emitted[n])
        /\ result = LevelsResult(candles, WithCounter(0), settings)

\* a level was emitted with touches that the counter of no cluster of its
\* side and rounded price holds
C21_Witness ==
    /\ Scored
    /\ \E kind \in Kinds : \E n \in 1..Len(Detailed(kind)) :
          \A m \in 1..Len(ClustersOf(kind)) :
              ToFixed2(ClustersOf(kind)[m].avgPrice) = Detailed(kind)[n].price
                 => ClustersOf(kind)[m].touches # Detailed(kind)[n].touches

\* the score of the documentation, on (pivotCount, touches, volumeScore):
\* (pivotCount * 20 + touches * 8 + volumeScore * 6) / 2, rounded to the
\* nearest integer (a half rounds up), at most 100
Score(pivotCount, touches, volumeScore) ==
    LET twice   == RAdd(RInt(pivotCount * 20 + touches * 8), RMul(volumeScore, RInt(6)))
        \* round(x / 2) = floor((x + 1) / 2) = floor((n + d) / (2 * d)) for x = n / d
        rounded == (twice.n + twice.d) \div (2 * twice.d)
    IN  IF rounded < 100 THEN rounded ELSE 100

\* what a cluster shows of itself in a level: rounded price and score
PriceAndConfidence(kind) ==
    [ n \in 1..Len(ClustersOf(kind)) |->
        LET c == ClustersOf(kind)[n]
        IN  [ price      |-> ToFixed2(c.avgPrice),
              confidence |-> Score(c.pivotCount, TouchRecount(c.avgPrice), c.volumeScore) ] ]

EmittedPriceAndConfidence(kind) ==
    [ n \in 1..Len(Detailed(kind)) |->
        [ price |-> Detailed(kind)[n].price, confidence |-> Detailed(kind)[n].confidence ] ]

\* cluster a has no more pivots, touches and volume score than cluster b
Dominated(a, b) ==
    /\ a.pivotCount <= b.pivotCount
    /\ TouchRecount(a.avgPrice) <= TouchRecount(b.avgPrice)
    /\ RLe(a.volumeScore, b.volumeScore)

\* C22: the confidence of every emitted level is
\* min(100, round((pivotCount * 20 + touches * 8 + volumeScore * 6) / 2)) of
\* its cluster, touches being the recount over all candles; and the
\* confidence computed for a cluster is not below that of a cluster with no
\* more pivots, touches and volume score, nor does it decrease when one of
\* the three grows and the other two stay.
C22_ConfidenceFormula ==
    Scored =>
        LET recount == [ n \in 1..Len(clusters) |-> TouchRecount(clusters[n].avgPrice) ] \o << >>
            scored  == [ n \in 1..Len(clusters) |-> Confidence(clusters[n], recount[n]) ] \o << >>
        IN  /\ \A kind \in Kinds :
                  LET emitted == EmittedPriceAndConfidence(kind) \o << >>
                      shown   == PriceAndConfidence(kind) \o << >>
                  IN  \A n \in 1..Len(emitted) :
                         Occurrences(emitted, emitted[n]) <= Occurrences(shown, emitted[n])
            /\ \A a \in 1..Len(clusters) : \A b \in 1..Len(clusters) :
                  ( /\ clusters[a].pivotCount <= clusters[b].pivotCount
                    /\ recount[a] <= recount[b]
                    /\ RLe(clusters[a].volumeScore, clusters[b].volumeScore) )
                     => scored[a] <= scored[b]
            /\ \A n \in 1..Len(clusters) :
                  LET at(pp, tt, vv) == Confidence([pivotCount |-> pp, volumeScore |-> vv], tt)
                      p == clusters[n].pivotCount
                      t == recount[n]
                      v == clusters[n].volumeScore
                  IN  /\ scored[n] <= at(p + 1, t, v)
                      /\ scored[n] <= at(p, t + 1, v)
                      /\ scored[n] <= at(p, t, RAdd(v, Rat(1, 2)))

\* a level was emitted whose raw score ends in .5 or more (the rounding went
\* up), and one cluster has fewer pivots and no more touches and volume score
\* than another
C22_Witness ==
    /\ Scored
    /\ \E kind \in Kinds : \E n \in 1..Len(ClustersOf(kind)) :
          LET c   == ClustersOf(kind)[n]
              raw == RawScore(c, TouchRecount(c.avgPrice))
          IN  /\ raw.d # 1 /\ 2 * (raw.n % raw.d) >= raw.d
              /\ Len(Detailed(kind)) = Len(ClustersOf(kind))
              /\ RLt(raw, RInt(100))
    /\ \E a \in 1..Len(clusters) : \E b \in 1..Len(clusters) :
          /\ Dominated(clusters[a], clusters[b])
          /\ clusters[a].pivotCount < clusters[b].pivotCount

\* C23: on each side exactly min(C, maxLevelsPerSide) levels are retained, C
\* the number of clusters of the side; they are candidates, none taken
\* twice; no candidate that was dropped has a higher confidence than one that
\* was retained; and the retained levels are in ascending price order.
C23_TopK ==
    Scored =>
        \A kind \in Kinds :
            LET candidates == Candidates(candles, clusters, kind, settings) \o << >>
                retained   == Detailed(kind)
                dropped(m) == Occurrences(retained, candidates[m])
                                 < Occurrences(candidates, candidates[m])
            IN  /\ Len(candidates) = Len(ClustersOf(kind))
                /\ Len(retained) = IF Len(candidates) < settings.maxLevelsPerSide
                                   THEN Len(candidates) ELSE settings.maxLevelsPerSide
                /\ \A n \in 1..Len(retained) :
                      Occurrences(retained, retained[n]) <= Occurrences(candidates, retained[n])
                /\ \A m \in 1..Len(candidates) : \A n \in 1..Len(retained) :
                      dropped(m) => retained[n].confidence >= candidates[m].confidence
                /\ \A n \in 1..(Len(retained) - 1) :
                      RLe(retained[n].price, retained[n + 1].price)

\* two levels were retained on a side, not in the order of their confidence,
\* and a candidate of lower confidence than both was dropped
C23_Witness ==
    /\ Scored
    /\ \E kind \in Kinds :
          LET candidates == Candidates(candles, clusters, kind, settings)
              retained   == Detailed(kind)
          IN  /\ Len(retained) = 2 /\ Len(candidates) > 2
              /\ retained[1].confidence < retained[2].confidence
              /\ \E m \in 1..Len(candidates) :
                    /\ candidates[m] \notin {retained[1], retained[2]}
                    /\ candidates[m].confidence < retained[1].confidence

\* the retained levels of both sides, each once
Retained == Detailed("support") \o Detailed("resistance")

RECURSIVE ConfidenceTotal(_)
ConfidenceTotal(n) == IF n = 0 THEN 0 ELSE Retained[n].confidence + ConfidenceTotal(n - 1)

\* C24 as stated: metadata.confidence is the unweighted mean of the
\* confidence of the retained levels of both sides, and 0 when none is
\* retained.
C24_MeanConfidence ==
    Done =>
        IF Retained = << >> THEN result.metadata.confidence = 0
        ELSE result.metadata.confidence * Len(Retained) = ConfidenceTotal(Len(Retained))

\* C24 (amended): metadata.confidence is the integer nearest to the
\* unweighted mean of the confidence of the retained levels of both sides (a
\* mean ending in .5 goes up), each retained level counted once and no
\* dropped candidate counted; it is 0 when no level is retained.
C24_RoundedMeanConfidence ==
    Done =>
        IF Retained = << >> THEN result.metadata.confidence = 0
        ELSE LET count == Len(Retained)
                 total == ConfidenceTotal(count)
                 c     == result.metadata.confidence
             IN  /\ 2 * count * c <= 2 * total + count
                 /\ 2 * total + count < 2 * count * (c + 1)

\* levels were retained on both sides, their mean confidence is not an
\* integer, and a candidate of another confidence was dropped
C24_Witness ==
    /\ Scored
    /\ Detailed("support") # << >> /\ Detailed("resistance") # << >>
    /\ ConfidenceTotal(Len(Retained)) % Len(Retained) # 0
    /\ \E kind \in Kinds : \E m \in 1..Len(ClustersOf(kind)) :
          /\ Len(ClustersOf(kind)) > Len(Detailed(kind))
          /\ \A n \in 1..Len(Detailed(kind)) :
                Candidates(candles, clusters, kind, settings)[m].confidence
                   # Detailed(kind)[n].confidence

(***************************************************************************)
(* Provenance: the clusters replayed from the candles' own prices.         *)
(***************************************************************************)
\* the pivots clustering has taken so far
Processed == IF pc \in {"cluster", "done"} THEN k ELSE 0

\* the price a pivot stands for, as its candle has it
RawPrice(pivot) == IF pivot.kind = "support" THEN CandleOf(pivot).low ELSE CandleOf(pivot).high

RECURSIVE MultiplierTotal(_)
MultiplierTotal(js) ==
    IF js = {} THEN RInt(0)
    ELSE LET j == CHOOSE x \in js : TRUE
         IN  RAdd(ExpectedMultiplier(CandleOf(pivots[j])), MultiplierTotal(js \ {j}))

RECURSIVE WeightedPriceTotal(_)
WeightedPriceTotal(js) ==
    IF js = {} THEN RInt(0)
    ELSE LET j == CHOOSE x \in js : TRUE
         IN  RAdd(RMul(RawPrice(pivots[j]), ExpectedMultiplier(CandleOf(pivots[j]))),
                  WeightedPriceTotal(js \ {j}))

\* the pivots an assignment (pivot position -> cluster position) gives to m
Members(owners, m) == { j \in 1..Len(owners) : owners[j] = m }

\* the weighted mean of the unrounded prices of a set of pivots
ExactAverage(js) == RDiv(WeightedPriceTotal(js), MultiplierTotal(js))

\* the cluster position of each of the first n pivots, every decision taken
\* on unrounded prices: the first cluster of the pivot's kind whose exact
\* average lies within price * proximityPercent of the pivot, else a new one
RECURSIVE Owners(_)
Owners(n) ==
    IF n = 0 THEN << >>
    ELSE LET earlier == Owners(n - 1)
             count   == Cardinality({ earlier[j] : j \in 1..Len(earlier) })
             p       == RawPrice(pivots[n])
             fits    == { m \in 1..count :
                            /\ \A j \in Members(earlier, m) : pivots[j].kind = pivots[n].kind
                            /\ RLe(RAbs(RSub(ExactAverage(Members(earlier, m)), p)),
                                   RMul(p, settings.proximityPercent)) }
         IN  Append(earlier, IF fits = {} THEN count + 1 ELSE Earliest(fits))

\* what the clusters of a kind show of themselves in a level, exact being the
\* replayed averages of all clusters
ReplayedPriceAndTouches(kind, exact) ==
    LET own == SelectSeq([ m \in 1..Len(clusters) |-> m ],
                         LAMBDA m : clusters[m].kind = kind)
    IN  [ n \in 1..Len(own) |->
            [ price   |-> ToFixed2(exact[own[n]]),
              touches |-> TouchRecount(exact[own[n]]) ] ] \o << >>

PricesOf(emitted) == [ n \in 1..Len(emitted) |-> emitted[n].price ]

\* C25: every reported price is the final average of one cluster of its side
\* rounded to 2 decimals, distinct levels of a side from distinct clusters,
\* and nothing is rounded before: the clusters are the ones that merge
\* decisions and weighted averages on the candles' unrounded prices give, and
\* the touches of a level are those of the unrounded average.
C25_PriceProvenance ==
    Scored =>
        LET owners == Owners(Len(pivots))
            exact  == [ m \in 1..Len(clusters) |-> ExactAverage(Members(owners, m)) ] \o << >>
        IN  /\ Len(clusters) = Cardinality({ owners[j] : j \in 1..Len(owners) })
            /\ \A m \in 1..Len(clusters) : clusters[m].avgPrice = exact[m]
            /\ result.supportLevels = PricesOf(Detailed("support"))
            /\ result.resistanceLevels = PricesOf(Detailed("resistance"))
            /\ \A kind \in Kinds :
                  LET emitted  == EmittedPriceAndTouches(kind) \o << >>
                      replayed == ReplayedPriceAndTouches(kind, exact)
                  IN  \A n \in 1..Len(emitted) :
                         Occurrences(emitted, emitted[n]) <= Occurrences(replayed, emitted[n])

\* a level was emitted for a cluster of two pivots or more whose average has
\* more than 2 decimals, and fewer or more candles touch the rounded price
\* than touch the average
C25_Witness ==
    /\ Scored
    /\ \E kind \in Kinds : \E n \in 1..Len(Detailed(kind)) :
          \A m \in 1..Len(ClustersOf(kind)) :
              ToFixed2(ClustersOf(kind)[m].avgPrice) = Detailed(kind)[n].price
                 => /\ ClustersOf(kind)[m].pivotCount >= 2
                    /\ ClustersOf(kind)[m].avgPrice # Detailed(kind)[n].price
                    /\ TouchRecount(Detailed(kind)[n].price) # Detailed(kind)[n].touches

\* C26: metadata.touchCounts maps the price of every retained level of either
\* side to that level's touches and has no other key, and so has as many
\* entries as there are retained levels, also when two retained levels have
\* the same rounded price.
C26_TouchCountsConsistency ==
    Done =>
        /\ \A n \in 1..Len(Retained) :
              /\ Retained[n].price \in DOMAIN result.metadata.touchCounts
              /\ result.metadata.touchCounts[Retained[n].price] = Retained[n].touches
        /\ \A p \in DOMAIN result.metadata.touchCounts :
              \E n \in 1..Len(Retained) : Retained[n].price = p
        /\ Cardinality(DOMAIN result.metadata.touchCounts) = Len(Retained)

\* high >= low and positive prices in every candle
WellFormed == \A j \in 1..Len(candles) :
                 /\ RLt(RInt(0), candles[j].low)
                 /\ RLe(candles[j].low, candles[j].high)

\* C27: for well-formed candles and proximityPercent > 0, every emitted level
\* has at least 1 and at most candles.length touches, however many pivots its
\* cluster has merged and however far the weighted average has moved from
\* them.
C27_TouchedAtLeastOnce ==
    (Scored /\ WellFormed /\ RLt(RInt(0), settings.proximityPercent)) =>
        \A n \in 1..Len(Retained) :
            /\ 1 <= Retained[n].touches
            /\ Retained[n].touches <= Len(candles)

\* a level was emitted for a cluster of two pivots or more whose average is
\* the price of none of its pivots, and not every candle touches it
C27_Witness ==
    /\ Scored /\ WellFormed /\ RLt(RInt(0), settings.proximityPercent)
    /\ \E kind \in Kinds : \E n \in 1..Len(Detailed(kind)) :
          /\ Detailed(kind)[n].touches < Len(candles)
          /\ \A m \in 1..Len(ClustersOf(kind)) :
                ToFixed2(ClustersOf(kind)[m].avgPrice) = Detailed(kind)[n].price
                   => /\ ClustersOf(kind)[m].pivotCount >= 2
                      /\ \A j \in 1..Len(pivots) :
                            pivots[j].price # ClustersOf(kind)[m].avgPrice

(***************************************************************************)
(* Cluster bookkeeping.                                                    *)
(***************************************************************************)
RECURSIVE PivotCountTotal(_, _)
PivotCountTotal(cls, kind) ==
    IF cls = << >> THEN 0
    ELSE (IF Head(cls).kind = kind THEN Head(cls).pivotCount ELSE 0)
            + PivotCountTotal(Tail(cls), kind)

\* C28: after any prefix of the pivots has been clustered, the pivotCounts of
\* the clusters of a kind add up to the number of processed pivots of that
\* kind, every pivot being a member of exactly one cluster, of its own kind;
\* and every cluster has pivotCount = touches >= 1, totalWeight = volumeScore
\* = the sum of the multipliers of its pivots, and an avgPrice between the
\* lowest and the highest price of its pivots.
C28_ClusterBookkeeping ==
    pc \in {"cluster", "done"} =>
        LET owners == Owners(Processed)
        IN  /\ \A kind \in Kinds :
                  PivotCountTotal(clusters, kind)
                     = Cardinality({ j \in 1..Processed : pivots[j].kind = kind })
            /\ \A j \in 1..Processed :
                  /\ owners[j] \in 1..Len(clusters)
                  /\ clusters[owners[j]].kind = pivots[j].kind
            /\ \A m \in 1..Len(clusters) :
                  LET own == Members(owners, m)
                  IN  /\ clusters[m].pivotCount = Cardinality(own)
                      /\ clusters[m].pivotCount = clusters[m].touches
                      /\ clusters[m].touches >= 1
                      /\ clusters[m].totalWeight = clusters[m].volumeScore
                      /\ clusters[m].volumeScore = MultiplierTotal(own)
                      /\ \E j \in own : RLe(pivots[j].price, clusters[m].avgPrice)
                      /\ \E j \in own : RLe(clusters[m].avgPrice, pivots[j].price)

\* clustering is under way, with pivots still to come; pivots of both kinds
\* have been processed, and a cluster holds two pivots of different
\* multipliers at an average strictly between their prices
C28_Witness ==
    /\ pc = "cluster" /\ 0 < k /\ k < Len(pivots)
    /\ \A kind \in Kinds : \E j \in 1..k : pivots[j].kind = kind
    /\ \E m \in 1..Len(clusters) :
          /\ clusters[m].pivotCount >= 2
          /\ clusters[m].totalWeight # RInt(clusters[m].pivotCount)
          /\ \E j \in Members(Owners(k), m) : RLt(pivots[j].price, clusters[m].avgPrice)
          /\ \E j \in Members(Owners(k), m) : RLt(clusters[m].avgPrice, pivots[j].price)

\* C29: every emitted level has confidence >= 12, and metadata.confidence is
\* 0 exactly when supportLevels and resistanceLevels are both empty.
C29_NoLowConfidence ==
    Done =>
        /\ \A n \in 1..Len(Retained) : Retained[n].confidence >= 12
        /\ result.metadata.confidence = 0
              <=> (result.supportLevels = << >> /\ result.resistanceLevels = << >>)

\* exactly one level was emitted, for a cluster of a single pivot with the
\* lowest multiplier
C29_Witness ==
    /\ Scored
    /\ Len(Retained) = 1
    /\ Len(clusters) = 1
    /\ clusters[1].pivotCount = 1
    /\ clusters[1].volumeScore = Rat(1, 2)
    /\ result.metadata.confidence = Retained[1].confidence

(***************************************************************************)
(* GET /api/levels/:symbol.                                                *)
(***************************************************************************)
\* C30: the handler sends at most one response, in every order of its
\* callbacks; once a response has been sent, no later step (onUpdate, fired
\* once or several times, onError, the timeout) sends anything or computes
\* levels.
C30_SingleResponse ==
    /\ [] (levelsRoute # NoRequest =>
              /\ Len(levelsRoute.res.sent) <= 1
              /\ levelsRoute.res.headersSent <=> levelsRoute.res.sent # << >>)
    /\ [][ (levelsRoute # NoRequest /\ levelsRoute.res.sent # << >>) =>
              /\ levelsRoute'.res = levelsRoute.res
              /\ levelsRoute'.computed = levelsRoute.computed ]_vars

\* the levels were sent by the first onUpdate; a second onUpdate with chart
\* data, two onError and the timeout came after it
C30_Witness ==
    /\ levelsRoute # NoRequest
    /\ levelsRoute.res.sent # << >>
    /\ levelsRoute.res.sent[1].status = 200
    /\ levelsRoute.updates >= 2
    /\ levelsRoute.periods # << >>
    /\ levelsRoute.computed = 1
    /\ levelsRoute.errors >= 2
    /\ levelsRoute.timer = "fired"

====
